---- MODULE Spec2Model ----
(***************************************************************************)
(* State-machine model of modules/session_manager.py (class                *)
(* SessionManager): a session record kept as one JSON document per key     *)
(* "session:<id>" in a Redis store with a per-key expiry.  An operation on *)
(* a session is get_session (GET + refreshing SETEX) followed by at most   *)
(* one more SETEX of the whole record; check_timer adds a clear_timer call *)
(* and cleanup_expired_sessions runs get_session over every stored key.    *)
(*                                                                         *)
(* json.dumps / json.loads of the record is a round trip over str, int,    *)
(* bool and lists of those, which JSON preserves exactly, so the stored    *)
(* value is modelled by the record itself.  datetime.isoformat /           *)
(* fromisoformat is likewise exact; instants are integers of the clock     *)
(* `now`, and the empty timestamp string "" is NoTime.                     *)
(***************************************************************************)
EXTENDS Integers, Sequences, FiniteSets, TLC

\* ------------------------------------------------------------------ bounds
MaxSteps == 2        \* largest total_steps passed to create_session
MaxTime == 2         \* the clock runs over 0..MaxTime
SessionTTL == 2      \* session_ttl (3600 s by default), in clock ticks
MaxTurns == 22       \* conversation turns added to one session
MaxShortTurns == 3   \* turns of a conversation that varies roles and intents

\* --------------------------------------------------------------- constants
default_history_limit == 10

\* Confidences are counted in thousandths: 950 is the double 0.95.  A value
\* one off a multiple of ten is the double next to that decimal: 799 is
\* 0.7999999999999999 (the sum 0.7 + 0.1) and 951 is 0.9500000000000001.
DefaultThreshold == 700       \* confidence_threshold=0.7

\* ------------------------------------------------------------------ inputs
Sids == {"s1", "s2"}                 \* session ids
SidList == <<"s1", "s2">>            \* the order in which keys("session:*") lists them
Created == {"s1"}                    \* the id the narrower specifications create
Clients == {"c1", "c2"}              \* concurrent callers
TotalStepsArgs == (0 - 1)..MaxSteps  \* total_steps of create_session
StepArgs == 0..(MaxSteps + 1)        \* step_number of navigate_to_step
MarkStepArgs == {1, MaxSteps + 1}    \* step_number of mark_step_spoken
IngredientArgs == {0, 1}             \* ingredient_index of mark_ingredient_spoken
SectionList == <<"greeting", "steps">>
SectionArgs == {SectionList[i] : i \in 1..Len(SectionList)}  \* section of mark_section_spoken
SectionNo(section) == CHOOSE i \in 1..Len(SectionList) : SectionList[i] = section
NoIntent == ""                       \* intent None of add_conversation_turn
LimitArgs == {0 - 1, 0, 1, 2}         \* limit of get_conversation_history; 0 is None
DurationArgs == {0 - 1, 0, 1, MaxTime}  \* duration_seconds of set_timer
NoTime == 0 - 2                      \* the timestamp string "": no instant now + duration

\* A recipe payload (recipe_data): its ingredient list and the step_num of
\* each of its steps.  NoRecipe is the payload {} stored for recipe_data None.
NoRecipe == [ingredients |-> <<>>, steps |-> <<>>]
OneRecipe == [ingredients |-> <<"flour">>, steps |-> <<1, 2>>]
RecipeArgs == {NoRecipe, OneRecipe}  \* recipe_data of create_session

\* Which of the (up to three) store calls of one operation do not raise:
\* the GET, the refreshing SETEX, the final SETEX.  A call that is never
\* attempted (after a failed GET) has no outcome of its own.
CallResults == {f \in [1..3 -> BOOLEAN] : ~f[1] => (f[2] /\ f[3])}

VARIABLES
    redis_client,   \* TRUE: self.redis_client is a client; FALSE: it is None
    store,          \* the Redis keyspace: session id -> key state
    now,            \* datetime.utcnow(), and the store's clock for expiry
    last,           \* the last completed call: what it returned and did to the store
    proc,           \* calls in flight, one per client (interleaved executions)
    classifier,     \* the IntentClassifier: confidence_threshold, use_llm_fallback
    request         \* the call of the classifier that is to be made, if any

vars == <<redis_client, store, now, last, proc, classifier, request>>

\* ------------------------------------------------------------ return values
RetNone == [kind |-> "none", v |-> 0]
RetBool(b) == [kind |-> "bool", v |-> IF b THEN 1 ELSE 0]
RetInt(n) == [kind |-> "int", v |-> n]
RetDict == [kind |-> "dict", v |-> 0]
RetList(n) == [kind |-> "list", v |-> n]
RetTrue == RetBool(TRUE)
RetFalse == RetBool(FALSE)

\* ------------------------------------------------------------------- store
NoKey == [present |-> FALSE]

Key(data, t) == [present |-> TRUE, value |-> data, expire_at |-> t + SessionTTL]

\* A write that stores the value and leaves a stored key's expiry as it is.
Setex_KeepTtl(st, s, data, t) ==
    IF st[s].present THEN [st EXCEPT ![s].value = data]
    ELSE [st EXCEPT ![s] = Key(data, t)]

\* redis setex(key, seconds, value)
Setex(st, s, data, t) == [st EXCEPT ![s] = Key(data, t)]

\* The record create_session builds, before the recipe payload is put in.
NewSession(total_steps, t) ==
    [response_structure |-> NoRecipe,
     step_index |-> 0,
     total_steps |-> total_steps,
     last_intent |-> "",
     paused |-> FALSE,
     current_state |-> "RECIPE_SELECTED",
     current_section |-> "idle",
     last_activity |-> t,
     ingredients_spoken |-> <<>>,
     steps_spoken |-> <<>>,
     sections_spoken |-> <<>>,
     conversation_history |-> <<>>,
     timer_active |-> FALSE,
     timer_end_time |-> NoTime,
     timer_duration |-> 0,
     current_audio_chunk |-> 0,
     total_audio_chunks |-> 0,
     playback_position |-> 0]

NoData == NewSession(0, NoTime)

\* x in list
In(x, list) == \E i \in 1..Len(list) : list[i] = x

\* _update_session(session_id, session_data); ok: the SETEX does not raise.
\* Yields the returned bool, the store afterwards, the number of store calls
\* made and whether one raised.
UpdateSessionInternal(st, s, data, t, ok) ==
    IF ~redis_client THEN [ret |-> FALSE, store |-> st, calls |-> 0, err |-> FALSE]
    ELSE IF ok THEN [ret |-> TRUE, store |-> Setex(st, s, data, t), calls |-> 1, err |-> FALSE]
    ELSE [ret |-> FALSE, store |-> st, calls |-> 1, err |-> TRUE]

\* get_session returning the record without writing it back.
GetSession_ReadOnly(st, s, t, okGet, okSet) ==
    IF ~redis_client
    THEN [found |-> FALSE, data |-> NoData, store |-> st, calls |-> 0, err |-> FALSE]
    ELSE IF ~okGet
    THEN [found |-> FALSE, data |-> NoData, store |-> st, calls |-> 1, err |-> TRUE]
    ELSE IF ~st[s].present
    THEN [found |-> FALSE, data |-> NoData, store |-> st, calls |-> 1, err |-> FALSE]
    ELSE [found |-> TRUE, data |-> [st[s].value EXCEPT !.last_activity = t],
          store |-> st, calls |-> 2, err |-> FALSE]

\* get_session(session_id); okGet / okSet: the GET and the refreshing SETEX
\* do not raise.  found: a record is returned, and data is that record.
GetSession(st, s, t, okGet, okSet) ==
    IF ~redis_client
    THEN [found |-> FALSE, data |-> NoData, store |-> st, calls |-> 0, err |-> FALSE]
    ELSE IF ~okGet
    THEN [found |-> FALSE, data |-> NoData, store |-> st, calls |-> 1, err |-> TRUE]
    ELSE IF ~st[s].present
    THEN [found |-> FALSE, data |-> NoData, store |-> st, calls |-> 1, err |-> FALSE]
    ELSE LET data == [st[s].value EXCEPT !.last_activity = t]
             w == UpdateSessionInternal(st, s, data, t, okSet)
         IN [found |-> TRUE, data |-> data, store |-> w.store,
             calls |-> 1 + w.calls, err |-> w.err]

\* The record `data` is as create_session builds it: no progress, no
\* history, no timer.
Untouched(data) ==
    data = [NewSession(data.total_steps, data.last_activity)
                EXCEPT !.response_structure = data.response_structure]

\* What a call found under the key of s.  For create_session: nothing, a
\* record as new, or a record in use; for set_pause: the dialogue state of
\* the record.
Before(op, s) ==
    IF op \notin {"create_session", "set_pause"} THEN "-"
    ELSE IF ~store[s].present THEN "none"
    ELSE IF op = "set_pause" THEN store[s].value.current_state
    ELSE IF Untouched(store[s].value) THEN "new" ELSE "used"

\* The call just completed, as the caller and the store saw it.
Done(op, s, arg, ret, calls, err) ==
    last' = [op |-> op, sid |-> s, arg |-> arg, ret |-> ret, calls |-> calls,
             err |-> err, before |-> Before(op, s)]

\* A found session whose operation ends after get_session.
AfterGet(op, s, arg, g, ret) ==
    /\ store' = g.store
    /\ Done(op, s, arg, ret, g.calls, g.err)

\* A found session whose operation ends with a second write of `data`.
AfterWrite(op, s, arg, g, w, ret) ==
    /\ store' = w.store
    /\ Done(op, s, arg, ret, g.calls + w.calls, g.err \/ w.err)

\* IntentClassifier.__init__(confidence_threshold, use_llm_fallback); api_key:
\* the Gemini API key is in the environment.  Without it the fallback is off.
NewClassifier(confidence_threshold, use_llm_fallback, api_key) ==
    [confidence_threshold |-> confidence_threshold,
     use_llm_fallback |-> use_llm_fallback /\ api_key]

\* ------------------------------------------------------------------- Init
SessionInit ==
    /\ redis_client \in BOOLEAN
    /\ store = [s \in Sids |-> NoKey]
    /\ now = 0
    /\ last = [op |-> "init", sid |-> "s1", arg |-> 0, ret |-> RetNone,
               calls |-> 0, err |-> FALSE, before |-> "-"]
    /\ proc = [c \in Clients |->
                  [pc |-> "idle", op |-> "none", sid |-> "s1", arg |-> 0,
                   data |-> NoData, ret |-> RetNone]]


\* --------------------------------------------------------------- operations
\* create_session keeping a record that is already stored under the key.
CreatedRecord_KeepStored(st, s, session_data) ==
    IF st[s].present THEN st[s].value ELSE session_data

\* The value create_session stores: the record it built, whatever the key held.
CreatedRecord(st, s, session_data) == session_data

\* create_session(session_id, ..., total_steps, recipe_data): returns the
\* record whether or not it was stored.
CreateSessionRecipe(s, total_steps, recipe_data) ==
    \E ok \in BOOLEAN :
        LET session_data == [NewSession(total_steps, now)
                                EXCEPT !.response_structure = recipe_data] IN
        /\ IF redis_client
           THEN /\ store' = IF ok THEN Setex(store, s,
                                            CreatedRecord(store, s, session_data), now)
                                  ELSE store
                /\ Done("create_session", s, total_steps, RetDict, 1, ~ok)
           ELSE /\ store' = store
                /\ Done("create_session", s, total_steps, RetDict, 0, FALSE)
        /\ UNCHANGED <<redis_client, now, proc, classifier, request>>

\* create_session without recipe_data (its default, None).
CreateSession(s, total_steps) == CreateSessionRecipe(s, total_steps, NoRecipe)

\* get_session called by the application itself.
GetSessionCall(s) ==
    \E f \in {h \in CallResults : h[3]} :
        LET g == GetSession(store, s, now, f[1], f[2]) IN
        /\ AfterGet("get_session", s, 0, g, IF g.found THEN RetDict ELSE RetNone)
        /\ UNCHANGED <<redis_client, now, proc, classifier, request>>

\* delete_session(session_id)
DeleteSession(s) ==
    \E ok \in BOOLEAN :
        /\ IF redis_client
           THEN /\ store' = IF ok THEN [store EXCEPT ![s] = NoKey] ELSE store
                /\ Done("delete_session", s, 0, RetBool(ok), 1, ~ok)
           ELSE /\ store' = store
                /\ Done("delete_session", s, 0, RetFalse, 0, FALSE)
        /\ UNCHANGED <<redis_client, now, proc, classifier, request>>

\* session_exists(session_id)
SessionExists(s) ==
    \E ok \in BOOLEAN :
        /\ IF redis_client
           THEN Done("session_exists", s, 0, RetBool(ok /\ store[s].present), 1, ~ok)
           ELSE Done("session_exists", s, 0, RetFalse, 0, FALSE)
        /\ UNCHANGED <<redis_client, store, now, proc, classifier, request>>

\* StepInRange with the lower end off by one (0 accepted).
StepInRange_ZeroBased(step_number, total_steps) ==
    0 <= step_number /\ step_number <= total_steps

\* navigate_to_step's range test
StepInRange(step_number, total_steps) == 1 <= step_number /\ step_number <= total_steps

\* navigate_to_step(session_id, step_number)
NavigateToStep(s, step_number) ==
    \E f \in CallResults :
        LET g == GetSession(store, s, now, f[1], f[2])
            okWrite == f[3] IN
        /\ IF ~g.found
           THEN AfterGet("navigate_to_step", s, step_number, g, RetFalse)
           ELSE IF StepInRange(step_number, g.data.total_steps)
           THEN LET data == [g.data EXCEPT !.step_index = step_number,
                                           !.current_section = "steps"]
                    w == UpdateSessionInternal(g.store, s, data, now, okWrite)
                IN AfterWrite("navigate_to_step", s, step_number, g, w, RetBool(w.ret))
           ELSE AfterGet("navigate_to_step", s, step_number, g, RetFalse)
        /\ UNCHANGED <<redis_client, now, proc, classifier, request>>

\* HasNext with <= for <.
HasNext_Inclusive(current_step, total_steps) == current_step <= total_steps

\* navigate_next's test for a further step
HasNext(current_step, total_steps) == current_step < total_steps

\* navigate_next(session_id)
NavigateNext(s) ==
    \E f \in CallResults :
        LET g == GetSession(store, s, now, f[1], f[2])
            okWrite == f[3] IN
        /\ IF ~g.found
           THEN AfterGet("navigate_next", s, 0, g, RetNone)
           ELSE IF HasNext(g.data.step_index, g.data.total_steps)
           THEN LET new_step == g.data.step_index + 1
                    data == [g.data EXCEPT !.step_index = new_step]
                    w == UpdateSessionInternal(g.store, s, data, now, okWrite)
                IN AfterWrite("navigate_next", s, 0, g, w, RetInt(new_step))
           ELSE AfterGet("navigate_next", s, 0, g, RetNone)
        /\ UNCHANGED <<redis_client, now, proc, classifier, request>>

\* HasPrev with > 0 for > 1.
HasPrev_ToZero(current_step) == current_step > 0

\* navigate_prev's test for an earlier step
HasPrev(current_step) == current_step > 1

\* navigate_prev(session_id)
NavigatePrev(s) ==
    \E f \in CallResults :
        LET g == GetSession(store, s, now, f[1], f[2])
            okWrite == f[3] IN
        /\ IF ~g.found
           THEN AfterGet("navigate_prev", s, 0, g, RetNone)
           ELSE IF HasPrev(g.data.step_index)
           THEN LET new_step == g.data.step_index - 1
                    data == [g.data EXCEPT !.step_index = new_step]
                    w == UpdateSessionInternal(g.store, s, data, now, okWrite)
                IN AfterWrite("navigate_prev", s, 0, g, w, RetInt(new_step))
           ELSE AfterGet("navigate_prev", s, 0, g, RetNone)
        /\ UNCHANGED <<redis_client, now, proc, classifier, request>>

\* NotSpoken without the membership test: every call appends.
NotSpoken_Always(x, list) == TRUE

\* `x not in list`, the test each mark_*_spoken makes before appending
NotSpoken(x, list) == ~In(x, list)

\* The record mark_ingredient_spoken writes for an index not yet present.
MarkIngredientData(data, ingredient_index) ==
    [data EXCEPT !.ingredients_spoken = Append(@, ingredient_index)]

\* MarkStepData without the assignment to step_index.
MarkStepData_ListOnly(data, step_number) ==
    [data EXCEPT !.steps_spoken = Append(@, step_number)]

\* MarkStepData without the append to steps_spoken.
MarkStepData_IndexOnly(data, step_number) ==
    [data EXCEPT !.step_index = step_number]

\* The record mark_step_spoken writes for a step number not yet present.
MarkStepData(data, step_number) ==
    [data EXCEPT !.steps_spoken = Append(@, step_number),
                 !.step_index = step_number]

\* The record mark_section_spoken writes for a section not yet present.
MarkSectionData(data, section) ==
    [data EXCEPT !.sections_spoken = Append(@, section),
                 !.current_section = section]

\* mark_ingredient_spoken(session_id, ingredient_index)
MarkIngredientSpokenCall(s, ingredient_index, f) ==
    LET g == GetSession(store, s, now, f[1], f[2])
        okWrite == f[3] IN
    /\ IF ~g.found
       THEN AfterGet("mark_ingredient_spoken", s, ingredient_index, g, RetFalse)
       ELSE IF NotSpoken(ingredient_index, g.data.ingredients_spoken)
       THEN LET w == UpdateSessionInternal(g.store, s,
                         MarkIngredientData(g.data, ingredient_index), now, okWrite)
            IN AfterWrite("mark_ingredient_spoken", s, ingredient_index, g, w,
                          RetBool(w.ret))
       ELSE AfterGet("mark_ingredient_spoken", s, ingredient_index, g, RetTrue)

\* A call of it, with any outcome of its store calls.
MarkIngredientSpoken(s, ingredient_index) ==
    \E f \in CallResults :
        /\ MarkIngredientSpokenCall(s, ingredient_index, f)
        /\ UNCHANGED <<redis_client, now, proc, classifier, request>>

\* mark_step_spoken(session_id, step_number)
MarkStepSpokenCall(s, step_number, f) ==
    LET g == GetSession(store, s, now, f[1], f[2])
        okWrite == f[3] IN
    /\ IF ~g.found
       THEN AfterGet("mark_step_spoken", s, step_number, g, RetFalse)
       ELSE IF NotSpoken(step_number, g.data.steps_spoken)
       THEN LET w == UpdateSessionInternal(g.store, s,
                         MarkStepData(g.data, step_number), now, okWrite)
            IN AfterWrite("mark_step_spoken", s, step_number, g, w, RetBool(w.ret))
       ELSE AfterGet("mark_step_spoken", s, step_number, g, RetTrue)

\* A call of it, with any outcome of its store calls.
MarkStepSpoken(s, step_number) ==
    \E f \in CallResults :
        /\ MarkStepSpokenCall(s, step_number, f)
        /\ UNCHANGED <<redis_client, now, proc, classifier, request>>

\* The last position from p on whose key is not spoken.
ScanUnspoken_Last(keys, spoken, p) ==
    LET unspoken == {q \in p..Len(keys) : NotSpoken(keys[q], spoken)} IN
    IF unspoken = {} THEN 0
    ELSE CHOOSE q \in unspoken : \A r \in unspoken : r <= q

\* The for loops of get_next_unspoken_*, from position p of the payload
\* sequence on: the first position whose key is `not in` the spoken list, 0
\* when the loop ends without returning.
RECURSIVE ScanUnspoken(_, _, _)
ScanUnspoken(keys, spoken, p) ==
    IF p > Len(keys) THEN 0
    ELSE IF NotSpoken(keys[p], spoken) THEN p
    ELSE ScanUnspoken(keys, spoken, p + 1)

\* A returned payload entry: {"index": i, "data": ingredient} is the index i,
\* {"step_num": n, "data": step} is the position of `step` in the payload.
RetEntry(v) == [kind |-> "entry", v |-> v]

\* enumerate(ingredients): the index of each position.
Indices(ingredients) == [p \in 1..Len(ingredients) |-> p - 1]

\* get_next_unspoken_ingredient(session_id)
GetNextUnspokenIngredientCall(s, f) ==
    LET g == GetSession(store, s, now, f[1], f[2])
        ingredients == g.data.response_structure.ingredients
        p == ScanUnspoken(Indices(ingredients), g.data.ingredients_spoken, 1)
    IN
    /\ AfterGet("get_next_unspoken_ingredient", s, 0, g,
                IF ~g.found \/ p = 0 THEN RetNone ELSE RetEntry(p - 1))

\* A call of it, with any outcome of its store calls.
GetNextUnspokenIngredient(s) ==
    \E f \in {h \in CallResults : h[3]} :
        /\ GetNextUnspokenIngredientCall(s, f)
        /\ UNCHANGED <<redis_client, now, proc, classifier, request>>

\* get_next_unspoken_step(session_id); a step of the payload is its
\* step.get("step_num", 0).
GetNextUnspokenStepCall(s, f) ==
    LET g == GetSession(store, s, now, f[1], f[2])
        steps == g.data.response_structure.steps
        p == ScanUnspoken(steps, g.data.steps_spoken, 1)
    IN
    /\ AfterGet("get_next_unspoken_step", s, 0, g,
                IF ~g.found \/ p = 0 THEN RetNone ELSE RetEntry(p))

\* A call of it, with any outcome of its store calls.
GetNextUnspokenStep(s) ==
    \E f \in {h \in CallResults : h[3]} :
        /\ GetNextUnspokenStepCall(s, f)
        /\ UNCHANGED <<redis_client, now, proc, classifier, request>>

\* Every store call of an operation succeeds.
AllOk == [i \in 1..3 |-> TRUE]

\* A narration loop of client c on session s: while get_next_unspoken_step
\* (op "narrate_steps") or get_next_unspoken_ingredient (op
\* "narrate_ingredients") returns an entry, mark its step number or its index
\* spoken.  proc[c].arg counts the entries the loop has received.
NarrationStart(c, s, op) ==
    /\ proc[c].pc = "idle"
    /\ store[s].present
    /\ proc' = [proc EXCEPT ![c] =
                  [@ EXCEPT !.pc = "ask", !.op = op, !.sid = s, !.arg = 0]]
    /\ UNCHANGED <<redis_client, store, now, last, classifier, request>>

\* The loop's call of get_next_unspoken_*: None ends the loop.
NarrationAsk(c) ==
    /\ proc[c].pc = "ask"
    /\ IF proc[c].op = "narrate_steps"
       THEN GetNextUnspokenStepCall(proc[c].sid, AllOk)
       ELSE GetNextUnspokenIngredientCall(proc[c].sid, AllOk)
    /\ proc' = [proc EXCEPT ![c] =
                  IF last'.ret = RetNone
                  THEN [@ EXCEPT !.pc = "done", !.ret = RetNone]
                  ELSE [@ EXCEPT !.pc = "mark", !.ret = last'.ret, !.arg = @ + 1]]
    /\ UNCHANGED <<redis_client, now, classifier, request>>

\* The loop's call of mark_*_spoken with the step number or the index of the
\* entry it received.
NarrationMark(c) ==
    /\ proc[c].pc = "mark"
    /\ IF proc[c].op = "narrate_steps"
       THEN MarkStepSpokenCall(proc[c].sid,
                store[proc[c].sid].value.response_structure.steps[proc[c].ret.v],
                AllOk)
       ELSE MarkIngredientSpokenCall(proc[c].sid, proc[c].ret.v, AllOk)
    /\ proc' = [proc EXCEPT ![c] = [@ EXCEPT !.pc = "ask"]]
    /\ UNCHANGED <<redis_client, now, classifier, request>>

\* mark_section_spoken(session_id, section); last.arg is the section's
\* position in SectionList.
MarkSectionSpoken(s, section) ==
    \E f \in CallResults :
        LET g == GetSession(store, s, now, f[1], f[2])
            okWrite == f[3]
            arg == SectionNo(section) IN
        /\ IF ~g.found
           THEN AfterGet("mark_section_spoken", s, arg, g, RetFalse)
           ELSE IF NotSpoken(section, g.data.sections_spoken)
           THEN LET w == UpdateSessionInternal(g.store, s,
                             MarkSectionData(g.data, section), now, okWrite)
                IN AfterWrite("mark_section_spoken", s, arg, g, w, RetBool(w.ret))
           ELSE AfterGet("mark_section_spoken", s, arg, g, RetTrue)
        /\ UNCHANGED <<redis_client, now, proc, classifier, request>>

\* dict.update: the fields named in `updates` replaced, the others kept.
DictUpdate(data, updates) ==
    [k \in DOMAIN data |-> IF k \in DOMAIN updates THEN updates[k] ELSE data[k]]

\* update_session(session_id, updates) as the public wrapper `op` calls it;
\* arg is what the wrapper's caller passed.
UpdateSession(op, s, arg, updates) ==
    \E f \in CallResults :
        LET g == GetSession(store, s, now, f[1], f[2])
            okWrite == f[3] IN
        /\ IF ~g.found
           THEN AfterGet(op, s, arg, g, RetFalse)
           ELSE LET data == [DictUpdate(g.data, updates) EXCEPT !.last_activity = now]
                    w == UpdateSessionInternal(g.store, s, data, now, okWrite)
                IN AfterWrite(op, s, arg, g, w, RetBool(w.ret))
        /\ UNCHANGED <<redis_client, now, proc, classifier, request>>

\* set_pause writing the flag alone.
PauseUpdates_FlagOnly(paused) == [paused |-> paused]

\* set_pause writing the state and not the flag.
PauseUpdates_StateOnly(paused) ==
    [current_state |-> IF paused THEN "PAUSED" ELSE "RECIPE_ACTIVE"]

\* set_pause putting a resumed session back in RECIPE_SELECTED.
PauseUpdates_Reselect(paused) ==
    [paused |-> paused,
     current_state |-> IF paused THEN "PAUSED" ELSE "RECIPE_SELECTED"]

\* set_pause forgetting the steps spoken.
PauseUpdates_ForgetSteps(paused) ==
    [paused |-> paused,
     current_state |-> IF paused THEN "PAUSED" ELSE "RECIPE_ACTIVE",
     steps_spoken |-> <<>>]

\* The fields set_pause writes.
PauseUpdates(paused) ==
    [paused |-> paused,
     current_state |-> IF paused THEN "PAUSED" ELSE "RECIPE_ACTIVE"]

\* set_pause(session_id, paused); last.arg is 1 for True, 0 for False.
SetPause(s, paused) ==
    UpdateSession("set_pause", s, IF paused THEN 1 ELSE 0, PauseUpdates(paused))

\* The k-th turn of a conversation: its content is k, the user speaks the odd
\* turns (with a detected intent) and the assistant the even ones.
TurnRole(content) == IF content % 2 = 1 THEN "user" ELSE "assistant"
TurnIntent(content) == IF content % 2 = 1 THEN "next_step" ELSE NoIntent

\* The content of the turn that follows the ones stored for s.
NextContent(st, s) ==
    IF st[s].present /\ Len(st[s].value.conversation_history) > 0
    THEN LET h == st[s].value.conversation_history IN h[Len(h)].content + 1
    ELSE 1

\* The entries of a list from index `from` on.
From(list, from) == SubSeq(list, from, Len(list))

\* The size limit of add_conversation_turn keeping the oldest entries.
LimitHistory_KeepOldest(history) ==
    IF Len(history) > default_history_limit * 2
    THEN SubSeq(history, 1, default_history_limit * 2)
    ELSE history

\* The size limit of add_conversation_turn: history[-default_history_limit * 2:]
\* once the list is longer than that.
LimitHistory(history) ==
    IF Len(history) > default_history_limit * 2
    THEN From(history, Len(history) - default_history_limit * 2 + 1)
    ELSE history

\* The last intent following the intent of every turn, whoever spoke.
UpdateLastIntent_AnyRole(data, role, intent) ==
    IF intent # NoIntent THEN [data EXCEPT !.last_intent = intent] ELSE data

\* "Update last intent for user messages": if role == "user" and intent
UpdateLastIntent(data, role, intent) ==
    IF role = "user" /\ intent # NoIntent
    THEN [data EXCEPT !.last_intent = intent]
    ELSE data

\* add_conversation_turn(session_id, role, content, intent); the entities of a
\* turn are stored and never read, and are left out.
AddConversationTurn(s, role, content, intent) ==
    \E f \in CallResults :
        LET g == GetSession(store, s, now, f[1], f[2])
            okWrite == f[3] IN
        /\ IF ~g.found
           THEN AfterGet("add_conversation_turn", s, content, g, RetFalse)
           ELSE LET conversation_turn == [role |-> role, content |-> content,
                                          timestamp |-> now, intent |-> intent]
                    history == LimitHistory(Append(g.data.conversation_history,
                                                   conversation_turn))
                    with_history == [g.data EXCEPT !.conversation_history = history]
                    data == UpdateLastIntent(with_history, role, intent)
                    w == UpdateSessionInternal(g.store, s, data, now, okWrite)
                IN AfterWrite("add_conversation_turn", s, content, g, w, RetBool(w.ret))
        /\ UNCHANGED <<redis_client, now, proc, classifier, request>>

\* A returned list of turns: its length and its entries ([] is RetList(0)).
RetTurns(list) ==
    IF list = <<>> THEN RetList(0)
    ELSE [kind |-> "list", v |-> Len(list), items |-> list]

\* history[-limit:] for a limit that is not None or 0: the last `limit`
\* entries, or for a negative limit the entries after the first -limit.
LastEntries(history, limit) ==
    IF limit > 0
    THEN IF limit >= Len(history) THEN history ELSE From(history, Len(history) - limit + 1)
    ELSE IF 0 - limit >= Len(history) THEN <<>> ELSE From(history, 1 - limit)

\* get_conversation_history(session_id, limit)
GetConversationHistory(s, limit) ==
    \E f \in {h \in CallResults : h[3]} :
        LET g == GetSession(store, s, now, f[1], f[2])
            history == g.data.conversation_history IN
        /\ IF ~g.found
           THEN AfterGet("get_conversation_history", s, limit, g, RetList(0))
           ELSE IF limit # 0
           THEN AfterGet("get_conversation_history", s, limit, g,
                         RetTurns(LastEntries(history, limit)))
           ELSE AfterGet("get_conversation_history", s, limit, g, RetTurns(history))
        /\ UNCHANGED <<redis_client, now, proc, classifier, request>>

\* update_playback_position(session_id, chunk_index, total_chunks, position)
UpdatePlaybackPosition(s, chunk_index, total_chunks, position) ==
    UpdateSession("update_playback_position", s, chunk_index,
                  [current_audio_chunk |-> chunk_index,
                   total_audio_chunks |-> total_chunks,
                   playback_position |-> position])

\* A returned playback dictionary: current_chunk, total_chunks, position.
RetPlayback(current_chunk, total_chunks, position) ==
    [kind |-> "playback", v |-> current_chunk, total_chunks |-> total_chunks,
     position |-> position]

\* get_playback_position(session_id)
GetPlaybackPosition(s) ==
    \E f \in {h \in CallResults : h[3]} :
        LET g == GetSession(store, s, now, f[1], f[2]) IN
        /\ AfterGet("get_playback_position", s, 0, g,
                    IF g.found
                    THEN RetPlayback(g.data.current_audio_chunk,
                                     g.data.total_audio_chunks,
                                     g.data.playback_position)
                    ELSE RetPlayback(0, 0, 0))
        /\ UNCHANGED <<redis_client, now, proc, classifier, request>>

\* update_session as a callee: f[1], f[2], f[3] say which of its GET, its
\* refreshing SETEX and its final SETEX do not raise.  Yields the returned
\* bool, the store afterwards, the store calls made and whether one raised.
UpdateSessionOutcome(st, s, updates, t, f) ==
    LET g == GetSession(st, s, t, f[1], f[2]) IN
    IF ~g.found
    THEN [ret |-> FALSE, store |-> g.store, calls |-> g.calls, err |-> g.err]
    ELSE LET data == [DictUpdate(g.data, updates) EXCEPT !.last_activity = t]
             w == UpdateSessionInternal(g.store, s, data, t, f[3])
         IN [ret |-> w.ret, store |-> w.store, calls |-> g.calls + w.calls,
             err |-> g.err \/ w.err]

\* set_timer(session_id, duration_seconds): the expiry instant is now + duration.
SetTimer(s, duration_seconds) ==
    LET end_time == now + duration_seconds IN
    UpdateSession("set_timer", s, duration_seconds,
                  [timer_active |-> TRUE,
                   timer_end_time |-> end_time,
                   timer_duration |-> duration_seconds])

\* The fields clear_timer writes.
ClearedTimer == [timer_active |-> FALSE, timer_end_time |-> NoTime, timer_duration |-> 0]

\* clear_timer(session_id)
ClearTimer(s) == UpdateSession("clear_timer", s, 0, ClearedTimer)

\* check_timer's result {active, remaining_seconds, expired}
RetTimer(active, remaining, expired) ==
    [kind |-> "timer", v |-> remaining, active |-> active, expired |-> expired]

\* check_timer's expiry test with the boundary instant left out.
TimerExpired_Strict(remaining) == remaining < 0

\* check_timer's expiry test on remaining = end_time - now.
TimerExpired(remaining) == remaining <= 0

\* check_timer(session_id): an expired timer is cleared through clear_timer,
\* whose result is not looked at.
CheckTimer(s) ==
    \E f \in CallResults, h \in CallResults :
        LET g == GetSession(store, s, now, f[1], f[2])
            inactive == RetTimer(FALSE, 0, FALSE) IN
        /\ IF ~g.found THEN AfterGet("check_timer", s, 0, g, inactive)
           ELSE IF ~g.data.timer_active THEN AfterGet("check_timer", s, 0, g, inactive)
           ELSE IF g.data.timer_end_time = NoTime
           THEN AfterGet("check_timer", s, 0, g, inactive)
           ELSE LET remaining == g.data.timer_end_time - now IN
                IF TimerExpired(remaining)
                THEN LET u == UpdateSessionOutcome(g.store, s, ClearedTimer, now, h)
                     IN AfterWrite("check_timer", s, 0, g, u, RetTimer(FALSE, 0, TRUE))
                ELSE AfterGet("check_timer", s, 0, g, RetTimer(TRUE, remaining, FALSE))
        /\ UNCHANGED <<redis_client, now, proc, classifier, request>>

\* get_all_session_ids(): the ids of the stored keys ([] when KEYS raises).
GetAllSessionIds(st, okKeys) ==
    IF redis_client /\ okKeys
    THEN SelectSeq(SidList, LAMBDA s : st[s].present)
    ELSE <<>>

\* cleanup_expired_sessions' age test on the record get_session returned.
SessionAged(t, last_activity) == t - last_activity > SessionTTL

\* One round of cleanup_expired_sessions' loop, for session id s: get_session,
\* the age test, delete_session (whose result is not looked at).  acc is the
\* store, the count, the store calls made and whether one raised so far;
\* f[1], f[2], f[3] say which of the GET, the refreshing SETEX and the DEL do
\* not raise.
CleanupOne(acc, s, t, f) ==
    LET g == GetSession(acc.store, s, t, f[1], f[2])
        read == [acc EXCEPT !.store = g.store, !.calls = @ + g.calls,
                            !.err = @ \/ g.err] IN
    IF g.found /\ g.data.last_activity # NoTime
            /\ SessionAged(t, g.data.last_activity)
    THEN [read EXCEPT !.store = IF f[3] THEN [g.store EXCEPT ![s] = NoKey] ELSE g.store,
                      !.count = @ + 1,
                      !.calls = @ + 1,
                      !.err = @ \/ ~f[3]]
    ELSE read

\* The loop of cleanup_expired_sessions over session_ids.
RECURSIVE CleanupLoop(_, _, _, _)
CleanupLoop(acc, session_ids, t, outcomes) ==
    IF session_ids = <<>> THEN acc
    ELSE CleanupLoop(CleanupOne(acc, Head(session_ids), t, outcomes[Head(session_ids)]),
                     Tail(session_ids), t, outcomes)

\* cleanup_expired_sessions()
CleanupExpiredSessions ==
    \E okKeys \in BOOLEAN, outcomes \in [Sids -> CallResults] :
        /\ IF ~redis_client
           THEN /\ store' = store
                /\ Done("cleanup_expired_sessions", "s1", 0, RetInt(0), 0, FALSE)
           ELSE LET session_ids == GetAllSessionIds(store, okKeys)
                    start == [store |-> store, count |-> 0, calls |-> 1, err |-> ~okKeys]
                    end == CleanupLoop(start, session_ids, now, outcomes)
                IN /\ store' = end.store
                   /\ Done("cleanup_expired_sessions", "s1", 0, RetInt(end.count),
                           end.calls, end.err)
        /\ UNCHANGED <<redis_client, now, proc, classifier, request>>

\* The clock advances, up to `limit`; the store drops the keys whose expiry
\* has come.
TickTo(limit) ==
    /\ now < limit
    /\ now' = now + 1
    /\ store' = [s \in Sids |->
                    IF store[s].present /\ store[s].expire_at <= now + 1
                    THEN NoKey ELSE store[s]]
    /\ Done("tick", "s1", 0, RetNone, 0, FALSE)
    /\ UNCHANGED <<redis_client, proc, classifier, request>>

\* The clock advances within 0..MaxTime.
Tick == TickTo(MaxTime)

\* ------------------------------------------------- interleaved executions
\* One client's call, one store call per step.  mark_ingredient_spoken is
\* GET, the refreshing SETEX of get_session, then the SETEX of the changed
\* record; between two of its steps any other client may take steps.
Idle == [pc |-> "idle", op |-> "none", sid |-> "s1", arg |-> 0,
         data |-> NoData, ret |-> RetNone]

\* WrittenRecord merging the stored ingredients_spoken into the write: the
\* indices another caller stored since this caller's read are kept.
WrittenRecord_Merged(st, s, data) ==
    IF st[s].present
    THEN LET stored == st[s].value.ingredients_spoken
             missing == SelectSeq(stored, LAMBDA x : ~In(x, data.ingredients_spoken))
         IN [data EXCEPT !.ingredients_spoken = missing \o @]
    ELSE data

\* The value a SETEX stores: the caller's whole in-memory record.
WrittenRecord(st, s, data) == data

\* Client c calls mark_ingredient_spoken(s, i): get_session's GET.
ConcMarkGet(c, s, i) ==
    /\ proc[c].pc = "idle"
    /\ \E ok \in BOOLEAN :
        LET call == [proc[c] EXCEPT !.op = "mark_ingredient_spoken", !.sid = s, !.arg = i]
        IN IF redis_client /\ ok /\ store[s].present
           THEN proc' = [proc EXCEPT ![c] =
                    [call EXCEPT !.pc = "refresh",
                                 !.data = [store[s].value EXCEPT !.last_activity = now]]]
           ELSE proc' = [proc EXCEPT ![c] = [call EXCEPT !.pc = "done", !.ret = RetFalse]]
    /\ UNCHANGED <<redis_client, store, now, last, classifier, request>>

\* get_session's refreshing SETEX, then the membership test.
ConcMarkRefresh(c) ==
    /\ proc[c].pc = "refresh"
    /\ \E ok \in BOOLEAN :
        LET p == proc[c]
            w == UpdateSessionInternal(store, p.sid, WrittenRecord(store, p.sid, p.data),
                                       now, ok)
        IN /\ store' = w.store
           /\ IF NotSpoken(p.arg, p.data.ingredients_spoken)
              THEN proc' = [proc EXCEPT ![c] =
                       [p EXCEPT !.pc = "write", !.data = MarkIngredientData(p.data, p.arg)]]
              ELSE proc' = [proc EXCEPT ![c] = [p EXCEPT !.pc = "done", !.ret = RetTrue]]
    /\ UNCHANGED <<redis_client, now, last, classifier, request>>

\* The SETEX of the changed record; its outcome is the call's result.
ConcMarkWrite(c) ==
    /\ proc[c].pc = "write"
    /\ \E ok \in BOOLEAN :
        LET p == proc[c]
            w == UpdateSessionInternal(store, p.sid, WrittenRecord(store, p.sid, p.data),
                                       now, ok)
        IN /\ store' = w.store
           /\ proc' = [proc EXCEPT ![c] = [p EXCEPT !.pc = "done", !.ret = RetBool(w.ret)]]
    /\ UNCHANGED <<redis_client, now, last, classifier, request>>

\* The caller has its result and may call again.
ConcReturn(c) ==
    /\ proc[c].pc = "done"
    /\ proc' = [proc EXCEPT ![c] = Idle]
    /\ UNCHANGED <<redis_client, store, now, last, classifier, request>>

\* check_timer in two steps.  First its get_session and its tests: a timer
\* found expired sends the call on to clear_timer, anything else ends it.
ConcCheckRead(c, s) ==
    /\ proc[c].pc = "idle"
    /\ \E f \in {h \in CallResults : h[3]} :
        LET g == GetSession(store, s, now, f[1], f[2])
            call == [proc[c] EXCEPT !.op = "check_timer", !.sid = s]
            inactive == RetTimer(FALSE, 0, FALSE)
        IN /\ store' = g.store
           /\ IF ~g.found \/ ~g.data.timer_active \/ g.data.timer_end_time = NoTime
              THEN proc' = [proc EXCEPT ![c] =
                       [call EXCEPT !.pc = "done", !.ret = inactive]]
              ELSE LET remaining == g.data.timer_end_time - now IN
                   IF TimerExpired(remaining)
                   THEN proc' = [proc EXCEPT ![c] =
                            [call EXCEPT !.pc = "clear", !.data = g.data]]
                   ELSE proc' = [proc EXCEPT ![c] =
                            [call EXCEPT !.pc = "done",
                                         !.ret = RetTimer(TRUE, remaining, FALSE)]]
    /\ UNCHANGED <<redis_client, now, last, classifier, request>>

\* Then self.clear_timer(session_id), which reads the record anew, and the
\* return of expired.
ConcCheckClear(c) ==
    /\ proc[c].pc = "clear"
    /\ \E h \in CallResults :
        LET u == UpdateSessionOutcome(store, proc[c].sid, ClearedTimer, now, h) IN
        /\ store' = u.store
        /\ proc' = [proc EXCEPT ![c] =
                      [@ EXCEPT !.pc = "done", !.ret = RetTimer(FALSE, 0, TRUE)]]
    /\ UNCHANGED <<redis_client, now, last, classifier, request>>

\* -------------------------------------------------------- intent classifier
\* modules/intent_classifier.py, class IntentClassifier.
NavigationBoost == 100        \* confidence + 0.1
StartRecipeBoost == 150       \* confidence + 0.15 (start_recipe)
ResumeBoost == 150            \* confidence + 0.15 (resume)
QuestionBoost == 50           \* confidence + 0.05
FullConfidence == 1000        \* min(1.0, ...)
FailSoftConfidence == 300     \* return Intent.UNKNOWN, 0.3, {}
MissingConfidence == 500      \* result.get("confidence", 0.5)

\* class Intent: the values of the enumeration.
IntentValues ==
    {"nav_next", "nav_prev", "nav_go_to", "nav_repeat", "nav_start", "question",
     "search_recipe", "start_recipe", "stop_pause", "resume", "confirm", "cancel",
     "small_talk", "clarify", "help", "unknown"}

\* _initialize_patterns: the intents in the order of the dictionary, each
\* with the confidences of its rules in the order of its list.
IntentPatterns ==
    << [intent |-> "nav_next",      confidences |-> <<950, 900, 850>>],
       [intent |-> "nav_prev",      confidences |-> <<950, 850, 800>>],
       [intent |-> "nav_go_to",     confidences |-> <<950, 700>>],
       [intent |-> "nav_start",     confidences |-> <<950, 950, 900, 950>>],
       [intent |-> "nav_repeat",    confidences |-> <<950, 900, 750>>],
       [intent |-> "small_talk",    confidences |-> <<950, 950, 950, 900, 850>>],
       [intent |-> "question",      confidences |-> <<900, 950, 850, 850, 900, 850>>],
       [intent |-> "search_recipe", confidences |-> <<950, 900, 700>>],
       [intent |-> "start_recipe",  confidences |-> <<950, 900, 850>>],
       [intent |-> "stop_pause",    confidences |-> <<950, 900, 850>>],
       [intent |-> "resume",        confidences |-> <<950, 900>>],
       [intent |-> "confirm",       confidences |-> <<950, 900, 850>>],
       [intent |-> "cancel",        confidences |-> <<950, 850>>],
       [intent |-> "help",          confidences |-> <<950, 900, 850>>] >>

\* The utterances classify is called with.
UserInputs ==
    {"", "   ", "next step please", "what's the third step?", "continue",
     "blablabla unknown input", "step 3", "start over",
     "Can I use butter instead of oil?", "let's start cooking this recipe",
     "rewind", " Resume ", "hello, can i add salt"}

\* Only the empty utterance counts as blank.
IsBlank_EmptyOnly(user_input) == user_input = ""

\* not user_input or not user_input.strip()
IsBlank(user_input) == user_input \in {"", "   "}

\* user_input.lower().strip(), on the utterances of UserInputs.
Normalize(user_input) ==
    CASE user_input = "Can I use butter instead of oil?" -> "can i use butter instead of oil?"
      [] user_input = " Resume " -> "resume"
      [] user_input = "   " -> ""
      [] OTHER -> user_input

\* re.search(pattern, normalized_input, re.IGNORECASE) of the rule patterns on
\* the normalized utterances of UserInputs: <<input, intent, k>> is here when
\* the k-th pattern of the intent matches the input.
Searches ==
    { <<"next step please", "nav_next", 1>>,
      <<"continue", "nav_next", 1>>,
      <<"continue", "resume", 1>>,
      <<"step 3", "nav_go_to", 2>>,
      <<"start over", "nav_start", 2>>,
      <<"start over", "nav_start", 4>>,
      <<"can i use butter instead of oil?", "question", 1>>,
      <<"can i use butter instead of oil?", "question", 5>>,
      <<"let's start cooking this recipe", "nav_start", 2>>,
      <<"let's start cooking this recipe", "start_recipe", 2>>,
      <<"rewind", "nav_prev", 3>>,
      <<"resume", "resume", 1>>,
      <<"hello, can i add salt", "small_talk", 1>>,
      <<"hello, can i add salt", "question", 5>> }

ReSearch(normalized_input, intent, k) == <<normalized_input, intent, k>> \in Searches

\* An entities dictionary is the set of its <<key, value>> pairs.
NoEntities == {}

\* _extract_entities(intent, match, text) on the utterances of UserInputs.
ExtractEntities(intent, text) ==
    IF intent = "nav_go_to"
    THEN IF text = "step 3" THEN {<<"step_number", "3">>} ELSE NoEntities
    ELSE IF intent = "question"
    THEN {<<"question_text", text>>,
          <<"question_type", IF text = "can i use butter instead of oil?"
                             THEN "substitution" ELSE "general">>}
    ELSE NoEntities

\* A key a dictionary does not have.
Missing == "<missing>"

\* A context argument: None (given FALSE), the empty dictionary, or a
\* dictionary with or without the keys current_state and paused.  paused is
\* "True" or "False" for the booleans and "'true'" for the string "true".
Context(current_state, paused) ==
    [given |-> TRUE, empty |-> FALSE, current_state |-> current_state, paused |-> paused]
NoContext == [given |-> FALSE, empty |-> TRUE, current_state |-> Missing, paused |-> Missing]
EmptyContext == [given |-> TRUE, empty |-> TRUE, current_state |-> Missing, paused |-> Missing]
ContextStates ==
    {"IDLE", "RECIPE_SELECTED", "RECIPE_ACTIVE", "READING_STEPS", "PAUSED", Missing}
Contexts ==
    {NoContext, EmptyContext}
    \cup {Context(st, Missing) : st \in ContextStates}
    \cup {Context("RECIPE_ACTIVE", "True"), Context("RECIPE_ACTIVE", "'true'"),
          Context("RECIPE_ACTIVE", "False")}

\* The boost taken off the confidence.
FloatAdd_Subtract(x, y) == x - y

\* The sum x + y of two doubles, in thousandths: the decimal sum, or the
\* double next to it where IEEE addition of the two doubles rounds away
\* from the double of the decimal sum.
FloatAdd(x, y) ==
    x + y + (CASE <<x, y>> = <<700, 100>> -> 0 - 1
               [] <<x, y>> = <<800, 50>> -> 1
               [] <<x, y>> = <<900, 50>> -> 1
               [] <<x, y>> = <<800, 150>> -> 1
               [] <<x, y>> = <<950, 150>> -> 0 - 1
               [] OTHER -> 0)

Min(x, y) == IF x <= y THEN x ELSE y

\* The states in which navigation and question intents are boosted.
ActiveReading == {"READING_INGREDIENTS", "READING_STEPS", "RECIPE_ACTIVE"}

\* _apply_context_boost(intent, base_confidence, context, entities)
ApplyContextBoost(intent, base_confidence, context) ==
    IF ~context.given \/ context.empty THEN base_confidence
    ELSE LET current_state == IF context.current_state = Missing THEN "IDLE"
                              ELSE context.current_state
             nav == IF intent \in {"nav_next", "nav_prev", "nav_repeat", "nav_go_to"}
                        /\ current_state \in ActiveReading
                    THEN Min(FullConfidence, FloatAdd(base_confidence, NavigationBoost))
                    ELSE base_confidence
             start == IF intent = "start_recipe" /\ current_state = "RECIPE_SELECTED"
                      THEN Min(FullConfidence, FloatAdd(nav, StartRecipeBoost))
                      ELSE nav
             resume == IF intent = "resume"
                          /\ (context.paused = "'true'" \/ current_state = "PAUSED")
                       THEN Min(FullConfidence, FloatAdd(start, ResumeBoost))
                       ELSE start
             question == IF intent = "question" /\ current_state \in ActiveReading
                         THEN Min(FullConfidence, FloatAdd(resume, QuestionBoost))
                         ELSE resume
         IN question

\* The rules of IntentPatterns from intent i on, in the order of the two loops
\* of _rule_based_classify.
RECURSIVE RulesFrom(_)
RulesFrom(i) ==
    IF i > Len(IntentPatterns) THEN <<>>
    ELSE [k \in 1..Len(IntentPatterns[i].confidences) |->
            [intent |-> IntentPatterns[i].intent, rule |-> k,
             confidence |-> IntentPatterns[i].confidences[k]]]
         \o RulesFrom(i + 1)

AllRules == RulesFrom(1)

\* A match replacing the best one so far on equal confidence too.
BetterMatch_OrEqual(adjusted_confidence, best_confidence) ==
    adjusted_confidence >= best_confidence

\* "Keep best match": adjusted_confidence > best_match[1]
BetterMatch(adjusted_confidence, best_confidence) ==
    adjusted_confidence > best_confidence

\* No rule matched.
NoMatch == [intent |-> "unknown", confidence |-> 0, entities |-> NoEntities]

\* The loops of _rule_based_classify over `rules`, with best_match so far.
RECURSIVE BestMatch(_, _, _, _)
BestMatch(best_match, rules, normalized_input, context) ==
    IF rules = <<>> THEN best_match
    ELSE LET r == Head(rules)
             entities == ExtractEntities(r.intent, normalized_input)
             adjusted_confidence == ApplyContextBoost(r.intent, r.confidence, context)
             kept == IF ReSearch(normalized_input, r.intent, r.rule)
                        /\ BetterMatch(adjusted_confidence, best_match.confidence)
                     THEN [intent |-> r.intent, confidence |-> adjusted_confidence,
                           entities |-> entities]
                     ELSE best_match
         IN BestMatch(kept, Tail(rules), normalized_input, context)

\* _rule_based_classify(normalized_input, context)
RuleBasedClassify(normalized_input, context) ==
    BestMatch(NoMatch, AllRules, normalized_input, context)

\* An answer of the fallback collaborator.  kind: the call raises ("raise"),
\* or it returns text whose body is no JSON ("invalid"), a JSON array
\* ("array") or a JSON object ("object") with the given intent, confidence
\* and entities.  fence: the text is bare ("none"), inside ```json ... ```
\* ("json") or ``` ... ``` ("plain"), or opens a fence and never closes it
\* ("unclosed").  confidence: absent, a number, or a string that is no number.
Answer(kind, fence, intent, confidence, entities) ==
    [kind |-> kind, fence |-> fence, intent |-> intent, confidence |-> confidence,
     entities |-> entities]
NoNumber == [t |-> "missing", v |-> 0]
Number(v) == [t |-> "number", v |-> v]
Text == [t |-> "text", v |-> 0]
AnswerConfidences ==
    {NoNumber, Text} \cup {Number(v) : v \in {0 - 200, 0, 300, 800, 951, 1000, 1500}}
AnswerIntents == {"question", "unknown", "restart", Missing}
AnswerEntities == {NoEntities, {<<"step_number", "3">>}}
Answers ==
    {Answer(k, "none", Missing, NoNumber, NoEntities) : k \in {"raise", "invalid", "array"}}
    \cup {Answer("object", "none", i, c, e) :
            i \in AnswerIntents, c \in AnswerConfidences, e \in AnswerEntities}
    \cup {Answer("object", f, "question", Number(800), NoEntities) :
            f \in {"json", "plain", "unclosed"}}

\* No answer was asked for.
NotAsked == Answer("none", "none", Missing, NoNumber, NoEntities)

\* The text between the fences, as _llm_classify cuts it out: with no closing
\* fence find() is -1 and the slice loses the last character of the body.
StripFence(answer) ==
    IF answer.kind # "raise" /\ answer.fence = "unclosed"
    THEN [answer EXCEPT !.kind = "invalid"]
    ELSE answer

\* What _llm_classify returns from its except clause.
FailSoft == [intent |-> "unknown", confidence |-> FailSoftConfidence,
             entities |-> NoEntities, err |-> TRUE]

\* _llm_classify(user_input, context), given the collaborator's answer.
LlmClassify(answer) ==
    LET result == StripFence(answer) IN
    IF result.kind # "object" THEN FailSoft
    ELSE LET intent_str == IF result.intent = Missing THEN "unknown" ELSE result.intent
             intent == IF intent_str \in IntentValues THEN intent_str ELSE "unknown"
         IN IF result.confidence.t = "text" THEN FailSoft
            ELSE [intent |-> intent,
                  confidence |-> IF result.confidence.t = "missing"
                                 THEN MissingConfidence ELSE result.confidence.v,
                  entities |-> result.entities,
                  err |-> FALSE]

\* What classify returns and prints: the result, the rule stage's result, the
\* calls made to the collaborator and whether one failed.
Classified(result, rule, calls, err) ==
    [kind |-> "intent", v |-> result.confidence, intent |-> result.intent,
     entities |-> result.entities, rule_intent |-> rule.intent,
     rule_confidence |-> rule.confidence, llm_calls |-> calls, llm_err |-> err]

\* The fallback's result wins on equal confidence too.
FallbackWins_OrEqual(llm_confidence, confidence) == llm_confidence >= confidence

\* "Use LLM result if it has higher confidence"
FallbackWins(llm_confidence, confidence) == llm_confidence > confidence

\* The fallback is asked whenever it is enabled.
NeedsFallback_Always(confidence, clf) == clf.use_llm_fallback

\* "Use LLM fallback if confidence is low"
NeedsFallback(confidence, clf) ==
    confidence < clf.confidence_threshold /\ clf.use_llm_fallback

\* classify(user_input, context) of the classifier clf, the collaborator
\* answering `answer` if it is called.
ClassifyResult(clf, user_input, context, answer) ==
    IF IsBlank(user_input) THEN Classified(NoMatch, NoMatch, 0, FALSE)
    ELSE LET normalized_input == Normalize(user_input)
             rule == RuleBasedClassify(normalized_input, context)
         IN IF NeedsFallback(rule.confidence, clf)
            THEN LET llm == LlmClassify(answer) IN
                 IF FallbackWins(llm.confidence, rule.confidence)
                 THEN Classified(llm, rule, 1, llm.err)
                 ELSE Classified(rule, rule, 1, llm.err)
            ELSE Classified(rule, rule, 0, FALSE)

\* A call that is to be made: classify(user_input, context), the collaborator
\* answering `answer` if it is asked, or _apply_context_boost(intent,
\* base_confidence, context, entities).
Request(op, user_input, intent, base_confidence, context, answer) ==
    [op |-> op, user_input |-> user_input, intent |-> intent,
     base_confidence |-> base_confidence, context |-> context, answer |-> answer]
NoRequest == Request("none", "", "unknown", 0, NoContext, NotAsked)

\* The call classify(user_input, context) of the request.
Classify ==
    /\ request.op = "classify"
    /\ LET r == ClassifyResult(classifier, request.user_input, request.context,
                               request.answer) IN
       last' = [op |-> "classify", sid |-> "s1", arg |-> request,
                ret |-> r, calls |-> 0, err |-> FALSE, before |-> "-"]
    /\ request' = NoRequest
    /\ UNCHANGED <<redis_client, store, now, proc, classifier>>

\* The call _apply_context_boost(intent, base_confidence, context, entities)
\* of the request.
ApplyContextBoostCall ==
    /\ request.op = "_apply_context_boost"
    /\ last' = [op |-> "_apply_context_boost", sid |-> "s1",
                arg |-> request,
                ret |-> [kind |-> "float",
                         v |-> ApplyContextBoost(request.intent,
                                                 request.base_confidence,
                                                 request.context)],
                calls |-> 0, err |-> FALSE, before |-> "-"]
    /\ request' = NoRequest
    /\ UNCHANGED <<redis_client, store, now, proc, classifier>>

\* The base confidences of the rules.
BaseConfidences == {AllRules[j].confidence : j \in 1..Len(AllRules)}

\* ----------------------------------------------------------- specifications
\* A SessionManager, and an IntentClassifier built with its defaults.
Init ==
    /\ SessionInit
    /\ classifier = NewClassifier(DefaultThreshold, TRUE, TRUE)
    /\ request = NoRequest

StoreOps ==
    \/ \E s \in Sids : GetSessionCall(s)
    \/ \E s \in Sids : DeleteSession(s)
    \/ \E s \in Sids : SessionExists(s)
    \/ \E s \in Sids, b \in BOOLEAN : SetPause(s, b)

NavOps(ids) ==
    \/ \E s \in ids, n \in StepArgs : NavigateToStep(s, n)
    \/ \E s \in ids : NavigateNext(s)
    \/ \E s \in ids : NavigatePrev(s)

MarkOps(ids) ==
    \/ \E s \in ids, i \in IngredientArgs : MarkIngredientSpoken(s, i)
    \/ \E s \in ids, n \in MarkStepArgs : MarkStepSpoken(s, n)
    \/ \E s \in ids, x \in SectionArgs : MarkSectionSpoken(s, x)

\* Sequential use of the store, navigation and pause: one session id is
\* created, the other never is, and the clock runs.
Next ==
    \/ \E s \in Created, n \in TotalStepsArgs : CreateSession(s, n)
    \/ StoreOps
    \/ NavOps(Sids)
    \/ Tick

Spec == Init /\ [][Next]_vars

\* Navigation alone on one created session, with the clock running.
NextNav ==
    \/ \E s \in Created, n \in TotalStepsArgs : CreateSession(s, n)
    \/ NavOps(Created)
    \/ Tick

SpecNav == Init /\ [][NextNav]_vars

\* Narration tracking on one created session.
NextMark ==
    \/ \E s \in Created, n \in TotalStepsArgs : CreateSession(s, n)
    \/ MarkOps(Created)

SpecMark == Init /\ [][NextMark]_vars

\* Step narration and navigation on one created session, with the clock running.
NextStep ==
    \/ \E s \in Created, n \in TotalStepsArgs : CreateSession(s, n)
    \/ \E s \in Created, n \in MarkStepArgs : MarkStepSpoken(s, n)
    \/ NavOps(Created)
    \/ Tick

SpecStep == Init /\ [][NextStep]_vars

\* Two clients marking ingredients of one session, their store calls interleaved.
NextConc ==
    \/ \E s \in Created : CreateSession(s, MaxSteps)
    \/ \E c \in Clients, s \in Created, i \in IngredientArgs : ConcMarkGet(c, s, i)
    \/ \E c \in Clients : ConcMarkRefresh(c)
    \/ \E c \in Clients : ConcMarkWrite(c)
    \/ \E c \in Clients : ConcReturn(c)

SpecConc == Init /\ [][NextConc]_vars

\* Ingredient and step narration on one session created with or without a
\* recipe payload.
NextRecipe ==
    \/ \E s \in Created, r \in RecipeArgs : CreateSessionRecipe(s, MaxSteps, r)
    \/ \E s \in Created, i \in IngredientArgs : MarkIngredientSpoken(s, i)
    \/ \E s \in Created, n \in MarkStepArgs : MarkStepSpoken(s, n)

SpecRecipe == Init /\ [][NextRecipe]_vars

\* The cooking timer of one created session, with the clock running.
NextTimer ==
    \/ \E s \in Created : CreateSession(s, MaxSteps)
    \/ \E s \in Created, d \in DurationArgs : SetTimer(s, d)
    \/ \E s \in Created : ClearTimer(s)
    \/ \E s \in Created : CheckTimer(s)
    \/ Tick

SpecTimer == Init /\ [][NextTimer]_vars

\* One conversation on one created session, turn after turn, past the
\* history's size limit.
NextHistory ==
    \/ \E s \in Created : CreateSession(s, MaxSteps)
    \/ \E s \in Created :
        LET content == NextContent(store, s) IN
        /\ content <= MaxTurns
        /\ AddConversationTurn(s, TurnRole(content), content, TurnIntent(content))
    \/ \E s \in Created, limit \in LimitArgs : GetConversationHistory(s, limit)

SpecHistory == Init /\ [][NextHistory]_vars

\* A session in use (narration marks, pause, timer, a first conversation
\* turn) and create_session called again for its id.
NextProgress ==
    \/ \E s \in Created : CreateSessionRecipe(s, MaxSteps, OneRecipe)
    \/ \E s \in Created : MarkIngredientSpoken(s, 0)
    \/ \E s \in Created : MarkStepSpoken(s, 1)
    \/ \E s \in Created : MarkSectionSpoken(s, "greeting")
    \/ \E s \in Created, b \in BOOLEAN : SetPause(s, b)
    \/ \E s \in Created : SetTimer(s, 1)
    \/ \E s \in Created : AddConversationTurn(s, "user", 1, "next_step")

SpecProgress == Init /\ [][NextProgress]_vars

\* The life of one session created when the clock starts: reads, a write,
\* existence tests and deletion, while the clock runs up to the TTL.
NextTtl ==
    \/ \E s \in Created : now = 0 /\ CreateSession(s, MaxSteps)
    \/ \E s \in Sids : GetSessionCall(s)
    \/ \E s \in Sids : SessionExists(s)
    \/ \E s \in Sids : DeleteSession(s)
    \/ \E s \in Created : NavigateNext(s)
    \/ Tick

SpecTtl == Init /\ [][NextTtl]_vars

\* Manual cleanup of two sessions, one of which a slow caller writes back
\* long after reading it, with the clock running to one tick past the TTL.
NextCleanup ==
    \/ \E s \in Sids : CreateSession(s, MaxSteps)
    \/ \E s \in Created : ConcMarkGet("c1", s, 0)
    \/ ConcMarkRefresh("c1")
    \/ ConcMarkWrite("c1")
    \/ ConcReturn("c1")
    \/ CleanupExpiredSessions
    \/ TickTo(SessionTTL + 1)

SpecCleanup == Init /\ [][NextCleanup]_vars

\* One call of the classifier: a classifier built with a threshold and a
\* fallback setting, with or without an API key, and the call to be made.
ThresholdArgs == {DefaultThreshold, 900, FullConfidence}
ClassifyRequests ==
    {Request("classify", u, "unknown", 0, c, a) :
        u \in UserInputs, c \in Contexts, a \in Answers}
BoostRequests ==
    {Request("_apply_context_boost", "", i, b, c, NotAsked) :
        i \in IntentValues, b \in BaseConfidences, c \in Contexts}
InitClassify ==
    /\ SessionInit
    /\ redis_client
    /\ \E t \in ThresholdArgs, use_llm_fallback \in BOOLEAN, api_key \in BOOLEAN :
          classifier = NewClassifier(t, use_llm_fallback, api_key)
    /\ request \in ClassifyRequests \cup BoostRequests

NextClassify ==
    \/ Classify
    \/ ApplyContextBoostCall

SpecClassify == InitClassify /\ [][NextClassify]_vars

\* A short conversation in one session: turns of either role, with and
\* without an intent.
RoleArgs == {"user", "assistant"}
IntentArgs == {NoIntent, "next_step", "question"}
NextTurn ==
    \/ CreateSession("s1", MaxSteps)
    \/ \E role \in RoleArgs, intent \in IntentArgs :
        LET content == NextContent(store, "s1") IN
        /\ content <= MaxShortTurns
        /\ AddConversationTurn("s1", role, content, intent)

SpecTurn == Init /\ [][NextTurn]_vars

\* Narration of one session's recipe: a payload of two ingredients and two
\* steps, or one whose steps have a number twice and a step without a number.
TwoRecipe == [ingredients |-> <<"flour", "salt">>, steps |-> <<1, 2>>]
OddRecipe == [ingredients |-> <<"flour">>, steps |-> <<1, 1, 0>>]
NarratedRecipes == {NoRecipe, TwoRecipe, OddRecipe}
NarratedSteps == {0, 1, 2}
NextNarration ==
    \/ \E r \in NarratedRecipes : CreateSessionRecipe("s1", MaxSteps, r)
    \/ \E i \in IngredientArgs : MarkIngredientSpoken("s1", i)
    \/ \E n \in NarratedSteps : MarkStepSpoken("s1", n)
    \/ GetNextUnspokenIngredient("s1")
    \/ GetNextUnspokenStep("s1")

SpecNarration == Init /\ [][NextNarration]_vars

\* One session used through every family of operations: navigation, marks,
\* timer, history and playback, with pauses, resumes and re-creation.
NextDialogue ==
    \/ CreateSession("s1", 1)
    \/ \E b \in BOOLEAN : SetPause("s1", b)
    \/ NavigateNext("s1")
    \/ NavigatePrev("s1")
    \/ MarkStepSpoken("s1", 1)
    \/ SetTimer("s1", 1)
    \/ CheckTimer("s1")
    \/ /\ NextContent(store, "s1") = 1
       /\ AddConversationTurn("s1", "user", 1, "next_step")
    \/ GetConversationHistory("s1", 1)
    \/ UpdatePlaybackPosition("s1", 1, 2, 0)
    \/ GetPlaybackPosition("s1")

SpecDialogue == Init /\ [][NextDialogue]_vars

\* Narration loops over the steps and over the ingredients of one stored
\* session, which nothing else writes.
LoopRecipes ==
    NarratedRecipes \cup {[ingredients |-> <<"flour", "salt">>, steps |-> <<2, 0, 2>>]}
NextLoop ==
    \/ /\ ~store["s1"].present
       /\ \E r \in LoopRecipes : CreateSessionRecipe("s1", MaxSteps, r)
    \/ NarrationStart("c1", "s1", "narrate_steps")
    \/ NarrationStart("c2", "s1", "narrate_ingredients")
    \/ \E c \in Clients : NarrationAsk(c)
    \/ \E c \in Clients : NarrationMark(c)

SpecLoop == Init /\ [][NextLoop]_vars

\* check_timer of one caller interleaved with set_timer calls of another.
NextTimerRace ==
    \/ CreateSession("s1", MaxSteps)
    \/ \E d \in {0, 1} : SetTimer("s1", d)
    \/ ConcCheckRead("c1", "s1")
    \/ ConcCheckClear("c1")
    \/ ConcReturn("c1")
    \/ TickTo(1)

SpecTimerRace == Init /\ [][NextTimerRace]_vars

\* delete_session of one caller while a mark_ingredient_spoken of another is
\* between the read and the refreshing write of its get_session.
NextDelete ==
    \/ \E s \in Created : CreateSession(s, MaxSteps)
    \/ \E s \in Created, i \in IngredientArgs : ConcMarkGet("c1", s, i)
    \/ ConcMarkRefresh("c1")
    \/ ConcMarkWrite("c1")
    \/ ConcReturn("c1")
    \/ \E s \in Created : DeleteSession(s)

SpecDelete == Init /\ [][NextDelete]_vars

\* ================================================================== claims
NavNames == {"navigate_next", "navigate_prev", "navigate_to_step"}
FailureValues == {RetNone, RetFalse, RetList(0)}

\* This step is a call of `op` on s that read s's record (GET found it and
\* the refreshing SETEX was attempted).
ReadBy(op, s) ==
    /\ last'.op = op
    /\ last'.sid = s
    /\ store[s].present
    /\ last'.calls >= 2

\* The key state `post` holds the record `pre`, up to the last-activity timestamp.
SameButActivity(pre, post) ==
    /\ post.present
    /\ post.value = [pre EXCEPT !.last_activity = post.value.last_activity]

\* The key state `post` holds `pre` with step_index n, up to last activity.
SameButStep(pre, post, n) ==
    /\ post.present
    /\ post.value = [pre EXCEPT !.step_index = n,
                                !.last_activity = post.value.last_activity]

NoDuplicates(list) == \A i, j \in 1..Len(list) : list[i] = list[j] => i = j

\* C1 as stated: after each navigation call on a created session (with at
\* least one step), the stored step index is within [1, total_steps].
C1_StepWithinOneToTotal ==
    \A s \in Sids :
        (last.op \in NavNames /\ last.sid = s /\ store[s].present
            /\ store[s].value.total_steps >= 1)
        => (1 <= store[s].value.step_index
            /\ store[s].value.step_index <= store[s].value.total_steps)

\* C1 amended: from create_session on, under navigation calls alone, the
\* stored step index is 0 or within [1, total_steps].
C1_StepZeroOrWithinTotal ==
    \A s \in Sids :
        store[s].present
        => \/ store[s].value.step_index = 0
           \/ (1 <= store[s].value.step_index
               /\ store[s].value.step_index <= store[s].value.total_steps)

\* C1 witness: navigate_next at the last step of a session, refused.
C1_Witness ==
    /\ last.op = "navigate_next" /\ last.sid = "s1" /\ last.ret = RetNone
    /\ last.calls = 2 /\ ~last.err
    /\ store["s1"].present
    /\ store["s1"].value.total_steps = MaxSteps
    /\ store["s1"].value.step_index = MaxSteps

\* C2 as stated: the stored step index of a session (created with a
\* non-negative total_steps) is always within [0, total_steps].
C2_StepIndexWithinZeroToTotal ==
    \A s \in Sids :
        (store[s].present /\ store[s].value.total_steps >= 0)
        => (0 <= store[s].value.step_index
            /\ store[s].value.step_index <= store[s].value.total_steps)

\* C4 as stated: with no client (degraded mode) every call makes no store
\* call and returns a failure value, create_session included.
C4_DegradedCallsFail ==
    (~redis_client /\ last.op \notin {"init", "tick"})
    => (last.calls = 0 /\ last.ret \in FailureValues)

\* Support for C4: the same, for every call but create_session.
C4_DegradedOthersFail ==
    (~redis_client /\ last.op \notin {"init", "tick", "create_session"})
    => (last.calls = 0 /\ last.ret \in FailureValues)

\* C5 as stated: the call that follows a call in which a store call raised
\* makes no store call, and reports failure (create_session's result in
\* degraded mode is C4's subject and is left out here).
C5_NoStoreCallAfterFailure ==
    [][(last.err /\ last'.op # "tick")
        => /\ last'.calls = 0
           /\ last'.op # "create_session" => last'.ret \in FailureValues]_vars

\* C6 as stated: a call other than create_session on an id without a record
\* returns a not-found value and leaves the id without a record.
C6_MissingSessionNotFound ==
    [][\A s \in Sids :
        (~store[s].present /\ last'.sid = s
            /\ last'.op \notin {"create_session", "tick"})
        => (last'.ret \in FailureValues /\ ~store'[s].present)]_vars

\* Support for C6: the same, for every call but create_session and delete_session.
C6_MissingOthersNotFound ==
    [][\A s \in Sids :
        (~store[s].present /\ last'.sid = s
            /\ last'.op \notin {"create_session", "delete_session", "tick"})
        => (last'.ret \in FailureValues /\ ~store'[s].present)]_vars

\* C7 as stated, for calls whose store calls succeed on a session whose step
\* index is within [0, total_steps]: navigate_next at step_index = total_steps
\* and navigate_prev at step_index = 1 return None and change nothing but
\* last activity; in every other case they return and store step_index + 1,
\* respectively step_index - 1.
C7_NavigateNextPrevExact ==
    [][\A s \in Sids :
        LET pre == store[s].value IN
        /\ (ReadBy("navigate_next", s) /\ ~last'.err
                /\ 0 <= pre.step_index /\ pre.step_index <= pre.total_steps)
           => IF pre.step_index = pre.total_steps
              THEN last'.ret = RetNone /\ SameButActivity(pre, store'[s])
              ELSE /\ last'.ret = RetInt(pre.step_index + 1)
                   /\ SameButStep(pre, store'[s], pre.step_index + 1)
        /\ (ReadBy("navigate_prev", s) /\ ~last'.err
                /\ 0 <= pre.step_index /\ pre.step_index <= pre.total_steps)
           => IF pre.step_index = 1
              THEN last'.ret = RetNone /\ SameButActivity(pre, store'[s])
              ELSE /\ last'.ret = RetInt(pre.step_index - 1)
                   /\ SameButStep(pre, store'[s], pre.step_index - 1)]_vars

\* C7 amended: navigate_next at step_index >= total_steps and navigate_prev at
\* step_index <= 1 return None and change nothing but last activity; in every
\* other case they return step_index + 1, respectively step_index - 1, which is
\* the stored step index whenever the call's store calls succeed (and the
\* record is otherwise unchanged, holding the old or the new step index, in
\* every case).
C7_NavigateNextPrevClamped ==
    [][\A s \in Sids :
        LET pre == store[s].value IN
        /\ ReadBy("navigate_next", s)
           => IF pre.step_index >= pre.total_steps
              THEN last'.ret = RetNone /\ SameButActivity(pre, store'[s])
              ELSE /\ last'.ret = RetInt(pre.step_index + 1)
                   /\ \/ SameButStep(pre, store'[s], pre.step_index + 1)
                      \/ last'.err /\ SameButActivity(pre, store'[s])
        /\ ReadBy("navigate_prev", s)
           => IF pre.step_index <= 1
              THEN last'.ret = RetNone /\ SameButActivity(pre, store'[s])
              ELSE /\ last'.ret = RetInt(pre.step_index - 1)
                   /\ \/ SameButStep(pre, store'[s], pre.step_index - 1)
                      \/ last'.err /\ SameButActivity(pre, store'[s])]_vars

\* C7 witness: navigate_prev on a session still at step index 0 returned None.
C7_Witness ==
    /\ last.op = "navigate_prev" /\ last.sid = "s1" /\ last.ret = RetNone
    /\ last.calls = 2 /\ ~last.err
    /\ store["s1"].present
    /\ store["s1"].value.step_index = 0
    /\ store["s1"].value.total_steps >= 1

\* C8: navigate_to_step(step) on an existing session reports success exactly
\* when 1 <= step <= total_steps (its store calls succeeding); a success has
\* stored step as the step index, a failure has left the step index as it was.
C8_NavigateToStepRange ==
    [][\A s \in Sids :
        LET pre == store[s].value
            step == last'.arg
            inRange == 1 <= step /\ step <= pre.total_steps IN
        ReadBy("navigate_to_step", s)
        => /\ last'.ret \in {RetTrue, RetFalse}
           /\ ~last'.err => (last'.ret = RetTrue <=> inRange)
           /\ last'.ret = RetTrue
              => (inRange /\ store'[s].present /\ store'[s].value.step_index = step)
           /\ last'.ret = RetFalse
              => (store'[s].present /\ store'[s].value.step_index = pre.step_index)]_vars

\* C8 witness: a jump one past the last step was refused.
C8_Witness ==
    /\ last.op = "navigate_to_step" /\ last.sid = "s1" /\ last.ret = RetFalse
    /\ last.calls = 2 /\ ~last.err
    /\ store["s1"].present
    /\ store["s1"].value.total_steps >= 1
    /\ last.arg = store["s1"].value.total_steps + 1
    /\ store["s1"].value.step_index = 1

\* C9: no spoken-tracking collection ever holds a value twice, and a
\* mark_*_spoken call with a value already present reports success and leaves
\* the collection as long as it was.
C9_MarkIdempotent ==
    /\ [](\A s \in Sids :
            store[s].present
            => /\ NoDuplicates(store[s].value.ingredients_spoken)
               /\ NoDuplicates(store[s].value.steps_spoken)
               /\ NoDuplicates(store[s].value.sections_spoken))
    /\ [][\A s \in Sids :
            LET pre == store[s].value IN
            /\ (ReadBy("mark_ingredient_spoken", s) /\ In(last'.arg, pre.ingredients_spoken))
               => /\ last'.ret = RetTrue
                  /\ store'[s].present
                  /\ Len(store'[s].value.ingredients_spoken) = Len(pre.ingredients_spoken)
            /\ (ReadBy("mark_step_spoken", s) /\ In(last'.arg, pre.steps_spoken))
               => /\ last'.ret = RetTrue
                  /\ store'[s].present
                  /\ Len(store'[s].value.steps_spoken) = Len(pre.steps_spoken)
            /\ (ReadBy("mark_section_spoken", s)
                    /\ In(SectionList[last'.arg], pre.sections_spoken))
               => /\ last'.ret = RetTrue
                  /\ store'[s].present
                  /\ Len(store'[s].value.sections_spoken) = Len(pre.sections_spoken)]_vars

\* C9 witness: a second mark_section_spoken of a section already marked, with
\* two sections marked in all.
C9_Witness ==
    /\ last.op = "mark_section_spoken" /\ last.sid = "s1" /\ last.ret = RetTrue
    /\ last.calls = 2
    /\ store["s1"].present
    /\ Len(store["s1"].value.sections_spoken) = 2
    /\ In(SectionList[last.arg], store["s1"].value.sections_spoken)

\* C10 as stated: after a successful mark_step_spoken(n) the stored step
\* index is n (stated for sessions on which only step numbers of the recipe,
\* 1..total_steps, have been marked).
C10_MarkStepSetsIndex ==
    \A s \in Sids :
        (last.op = "mark_step_spoken" /\ last.sid = s /\ last.ret = RetTrue
            /\ store[s].present
            /\ \A i \in 1..Len(store[s].value.steps_spoken) :
                    store[s].value.steps_spoken[i] <= store[s].value.total_steps)
        => store[s].value.step_index = last.arg

\* C10 amended: a successful mark_step_spoken(n) with n not yet in
\* steps_spoken leaves n as the stored step index; with n already in
\* steps_spoken it reports success and leaves the step index as it was.
C10_MarkStepSetsIndexWhenNew ==
    [][\A s \in Sids :
        LET pre == store[s].value IN
        ReadBy("mark_step_spoken", s)
        => IF In(last'.arg, pre.steps_spoken)
           THEN last'.ret = RetTrue /\ SameButActivity(pre, store'[s])
           ELSE last'.ret = RetTrue
                => (store'[s].present /\ store'[s].value.step_index = last'.arg)]_vars

\* C10 witness: a step number beyond total_steps, marked for the first time,
\* has become the step index.
C10_Witness ==
    /\ last.op = "mark_step_spoken" /\ last.sid = "s1" /\ last.ret = RetTrue
    /\ last.calls = 3
    /\ store["s1"].present
    /\ store["s1"].value.step_index = last.arg
    /\ store["s1"].value.steps_spoken = <<1, last.arg>>

\* C3: without locking the later write wins in full.  A completed final write
\* leaves exactly the writer's in-memory record in the store, so an index
\* another client stored after the writer's read, and absent from the
\* writer's copy, is gone although both calls report success.
C3_LaterWriteWinsInFull ==
    [][\A c \in Clients :
        (proc[c].pc = "write" /\ proc'[c].pc = "done" /\ proc'[c].ret = RetTrue)
        => /\ store'[proc[c].sid].present
           /\ store'[proc[c].sid].value = proc[c].data
           /\ \A i \in IngredientArgs :
                ~In(i, proc[c].data.ingredients_spoken)
                => ~In(i, store'[proc[c].sid].value.ingredients_spoken)]_vars

\* C3 witness: both clients' mark_ingredient_spoken calls, with different
\* indices, have reported success and the stored collection holds only one index.
C3_Witness ==
    /\ proc["c1"].pc = "done" /\ proc["c2"].pc = "done"
    /\ proc["c1"].op = "mark_ingredient_spoken" /\ proc["c2"].op = "mark_ingredient_spoken"
    /\ proc["c1"].sid = "s1" /\ proc["c2"].sid = "s1"
    /\ proc["c1"].arg # proc["c2"].arg
    /\ proc["c1"].ret = RetTrue /\ proc["c2"].ret = RetTrue
    /\ store["s1"].present
    /\ Len(store["s1"].value.ingredients_spoken) = 1

\* C11 as stated: in every state, ingredients_spoken holds only indices of
\* ingredients of the session's recipe payload and steps_spoken holds only
\* step numbers within [1, total_steps].
C11_SpokenValuesValid ==
    \A s \in Sids :
        store[s].present
        => LET d == store[s].value IN
           /\ \A i \in 1..Len(d.ingredients_spoken) :
                 /\ 0 <= d.ingredients_spoken[i]
                 /\ d.ingredients_spoken[i] < Len(d.response_structure.ingredients)
           /\ \A i \in 1..Len(d.steps_spoken) :
                 /\ 1 <= d.steps_spoken[i]
                 /\ d.steps_spoken[i] <= d.total_steps

\* The key state `post` holds the record `pre` with its timer cleared, up to
\* last activity.
SameButTimerCleared(pre, post) ==
    /\ post.present
    /\ post.value = [DictUpdate(pre, ClearedTimer)
                        EXCEPT !.last_activity = post.value.last_activity]

\* What check_timer does on a stored record, and how a timer becomes set:
\* a set timer whose expiry instant has come is reported expired and cleared
\* (left set only when clear_timer's store calls fail); one whose expiry is
\* still ahead is reported active with the remaining time; no timer set is
\* reported inactive and not expired; a successful set_timer(d) stores
\* now + d as the expiry instant; and a timer becomes set only by set_timer.
TimerSteps ==
    \A s \in Sids :
        LET pre == store[s].value IN
        /\ ReadBy("check_timer", s)
           => IF pre.timer_active /\ pre.timer_end_time # NoTime
              THEN IF pre.timer_end_time <= now
                   THEN /\ last'.ret = RetTimer(FALSE, 0, TRUE)
                        /\ \/ SameButTimerCleared(pre, store'[s])
                           \/ last'.err /\ SameButActivity(pre, store'[s])
                   ELSE /\ last'.ret = RetTimer(TRUE, pre.timer_end_time - now, FALSE)
                        /\ SameButActivity(pre, store'[s])
              ELSE /\ last'.ret = RetTimer(FALSE, 0, FALSE)
                   /\ SameButActivity(pre, store'[s])
        /\ (ReadBy("set_timer", s) /\ last'.ret = RetTrue)
           => /\ store'[s].present
              /\ store'[s].value.timer_active
              /\ store'[s].value.timer_end_time = now + last'.arg
        /\ (store[s].present /\ ~pre.timer_active
                /\ store'[s].present /\ store'[s].value.timer_active)
           => last'.op = "set_timer"

\* C12 as stated: after set_timer(d) the first check_timer at or after the
\* expiry instant reports expired and clears the timer, and later checks
\* report inactive and not expired.  For the first check to find the timer,
\* the passing of time must not take away a record whose timer is set.
C12_ExpiryReportedOnce ==
    [][/\ TimerSteps
       /\ \A s \in Sids :
            (last'.op = "tick" /\ store[s].present /\ store[s].value.timer_active)
            => store'[s].present]_vars

\* C12 amended: a check_timer that finds the session's record behaves as
\* stated: at or after the expiry instant of a set timer it reports
\* active=false, expired=true and clears the timer, and any check that
\* finds no timer set reports active=false, expired=false.  (A session not
\* touched for the TTL is gone, its timer with it; when clear_timer's store
\* calls fail the timer stays set and the next check reports expired again.)
C12_ExpiryReportedWhileStored == [][TimerSteps]_vars

\* C12 witness: a check_timer after the expiry instant has reported expired
\* and cleared the timer, in the five store calls that takes.
C12_Witness ==
    /\ last.op = "check_timer" /\ last.sid = "s1"
    /\ last.ret = RetTimer(FALSE, 0, TRUE)
    /\ last.calls = 5 /\ ~last.err
    /\ now >= 1
    /\ store["s1"].present
    /\ ~store["s1"].value.timer_active
    /\ store["s1"].value.timer_end_time = NoTime

\* C13: the stored conversation history never holds more than
\* default_history_limit * 2 = 20 entries; a successful add_conversation_turn
\* stores the old entries in their order with the new turn last, and one made
\* with the history at the cap drops exactly the oldest entry.
C13_HistoryCapFifo ==
    /\ [](\A s \in Sids :
            store[s].present
            => Len(store[s].value.conversation_history) <= default_history_limit * 2)
    /\ [][\A s \in Sids :
            LET pre == store[s].value.conversation_history
                post == store'[s].value.conversation_history IN
            (ReadBy("add_conversation_turn", s) /\ last'.ret = RetTrue)
            => /\ store'[s].present
               /\ post[Len(post)].content = last'.arg
               /\ IF Len(pre) = default_history_limit * 2
                  THEN /\ Len(post) = Len(pre)
                       /\ SubSeq(post, 1, Len(post) - 1) = Tail(pre)
                  ELSE SubSeq(post, 1, Len(post) - 1) = pre]_vars

\* C13 witness: a turn added to a history at the cap: the first turn is gone,
\* the second is now the oldest and the new one the last of 20.
C13_Witness ==
    /\ last.op = "add_conversation_turn" /\ last.sid = "s1" /\ last.ret = RetTrue
    /\ last.arg = default_history_limit * 2 + 1
    /\ store["s1"].present
    /\ Len(store["s1"].value.conversation_history) = default_history_limit * 2
    /\ store["s1"].value.conversation_history[1].content = 2
    /\ store["s1"].value.conversation_history[default_history_limit * 2].content = last.arg

\* C14 as stated: create_session with a negative total step count fails and
\* writes no record (stated for calls made with a working store, whose
\* failure reporting is not C4's or C5's subject).
C14_NegativeTotalStepsRejected ==
    [][\A s \in Sids :
        (last'.op = "create_session" /\ last'.sid = s /\ last'.arg < 0
            /\ redis_client /\ ~last'.err)
        => (last'.ret \in FailureValues /\ store'[s] = store[s])]_vars

\* C15 as stated: the stored timer duration is never negative, and a
\* set_timer with a negative duration reports failure and changes no field
\* of the session (but last activity, which reading it refreshes).
C15_TimerDurationNonNegative ==
    /\ [](\A s \in Sids : store[s].present => store[s].value.timer_duration >= 0)
    /\ [][\A s \in Sids :
            (ReadBy("set_timer", s) /\ last'.arg < 0)
            => (last'.ret = RetFalse /\ SameButActivity(store[s].value, store'[s]))]_vars

\* C16: after a create_session whose write succeeded, whatever the key held
\* before, the stored record is brand new: state RECIPE_SELECTED, not
\* paused, the three spoken-tracking collections and the conversation
\* history empty, the timer inactive, with the full TTL ahead of it.
C16_CreateStoresBrandNew ==
    \A s \in Sids :
        (last.op = "create_session" /\ last.sid = s /\ last.calls = 1 /\ ~last.err)
        => /\ store[s].present
           /\ store[s].expire_at = now + SessionTTL
           /\ LET d == store[s].value IN
              /\ Untouched(d)
              /\ d.current_state = "RECIPE_SELECTED"
              /\ ~d.paused
              /\ d.step_index = 0
              /\ d.total_steps = last.arg
              /\ d.ingredients_spoken = <<>>
              /\ d.steps_spoken = <<>>
              /\ d.sections_spoken = <<>>
              /\ d.conversation_history = <<>>
              /\ ~d.timer_active
              /\ d.timer_end_time = NoTime
              /\ d.timer_duration = 0

\* C16 witness: create_session has succeeded for an id whose record was in
\* use, and the stored record is as new.
C16_Witness ==
    /\ last.op = "create_session" /\ last.sid = "s1"
    /\ last.calls = 1 /\ ~last.err
    /\ last.before = "used"
    /\ store["s1"].present
    /\ Untouched(store["s1"].value)
    /\ store["s1"].value.response_structure = OneRecipe

\* C17: a successful set_pause(true) leaves the stored session paused and in
\* state PAUSED, a successful set_pause(false) leaves it not paused and in
\* state RECIPE_ACTIVE, whatever state it was in; nothing else of the record
\* changes but last activity.
C17_SetPauseSetsState ==
    [][\A s \in Sids :
        LET pre == store[s].value IN
        (ReadBy("set_pause", s) /\ last'.ret = RetTrue)
        => /\ store'[s].present
           /\ store'[s].value.paused = (last'.arg = 1)
           /\ store'[s].value.current_state =
                 (IF last'.arg = 1 THEN "PAUSED" ELSE "RECIPE_ACTIVE")
           /\ store'[s].value =
                 [pre EXCEPT !.paused = store'[s].value.paused,
                             !.current_state = store'[s].value.current_state,
                             !.last_activity = now]]_vars

\* C17 witness: set_pause(false) has succeeded on a session that was in
\* state RECIPE_SELECTED, and the session is now in state RECIPE_ACTIVE.
C17_Witness ==
    /\ last.op = "set_pause" /\ last.sid = "s1" /\ last.arg = 0
    /\ last.ret = RetTrue
    /\ last.before = "RECIPE_SELECTED"
    /\ store["s1"].present
    /\ ~store["s1"].value.paused
    /\ store["s1"].value.current_state = "RECIPE_ACTIVE"

\* C18: every call whose get_session returns a record (and whose store calls
\* succeed) leaves the record in the store with last activity set to the
\* time of the call and the key's expiry a full TTL ahead, also when the
\* call then changes nothing, as navigate_next at the last step.
C18_ReadRefreshes ==
    [][\A s \in Sids :
        LET pre == store[s].value IN
        /\ (last'.sid = s /\ last'.op # "tick" /\ store[s].present
                /\ last'.calls >= 2 /\ ~last'.err)
           => /\ store'[s].present
              /\ store'[s].value.last_activity = now
              /\ store'[s].expire_at = now + SessionTTL
        /\ (ReadBy("navigate_next", s) /\ ~last'.err /\ last'.ret = RetNone)
           => SameButActivity(pre, store'[s])
        /\ (ReadBy("get_session", s) /\ ~last'.err)
           => (last'.ret = RetDict /\ SameButActivity(pre, store'[s]))]_vars

\* C18 witness: navigate_next at the last step, refused, with the clock past
\* its start: the record now carries the time of the call and
\* a full TTL.
C18_Witness ==
    /\ last.op = "navigate_next" /\ last.sid = "s1" /\ last.ret = RetNone
    /\ last.calls = 2 /\ ~last.err
    /\ now >= 1
    /\ store["s1"].present
    /\ store["s1"].value.step_index = store["s1"].value.total_steps
    /\ store["s1"].value.total_steps >= 1
    /\ store["s1"].value.last_activity = now
    /\ store["s1"].expire_at = now + SessionTTL

\* C19: a stored session was written less than a TTL ago, so one not written
\* for the TTL is not found: get_session returns None and session_exists
\* False for an id without a record; a record leaves the store only by
\* delete_session or when the clock reaches its last write plus the TTL;
\* and every read or write that succeeds puts the expiry a full TTL ahead,
\* so a session read or written in every TTL window stays.
C19_ExpiryFollowsLastWrite ==
    /\ [](\A s \in Sids :
            store[s].present
            => /\ store[s].expire_at = store[s].value.last_activity + SessionTTL
               /\ now < store[s].expire_at)
    /\ [][\A s \in Sids :
            /\ (store[s].present /\ ~store'[s].present)
               => \/ last'.op = "delete_session" /\ last'.sid = s
                  \/ last'.op = "tick" /\ now' = store[s].expire_at
            /\ (~store[s].present /\ last'.sid = s /\ last'.op = "get_session")
               => (last'.ret = RetNone /\ ~store'[s].present)
            /\ (~store[s].present /\ last'.sid = s /\ last'.op = "session_exists")
               => (last'.ret = RetFalse /\ ~store'[s].present)
            /\ (store[s].present /\ last'.sid = s /\ ~last'.err
                    /\ last'.op \in {"get_session", "navigate_next"})
               => (store'[s].present /\ store'[s].expire_at = now + SessionTTL)]_vars

\* C19 witness: a full TTL after the session was created it is still stored,
\* having been read one tick before.
C19_Witness ==
    /\ last.op = "tick"
    /\ now = SessionTTL
    /\ store["s1"].present
    /\ store["s1"].value.last_activity = now - 1
    /\ store["s1"].expire_at = now - 1 + SessionTTL

\* The stored sessions whose last activity is more than the TTL ago.
AgedSessions == {s \in Sids : store[s].present
                                /\ now - store[s].value.last_activity > SessionTTL}

\* This step is a cleanup_expired_sessions pass (and not a step of a call in
\* flight, which leaves `last` as it is).
CleanupPass == last'.op = "cleanup_expired_sessions" /\ proc' = proc

\* C20 as stated: a cleanup_expired_sessions pass (its store calls
\* succeeding) deletes every stored session whose last-activity age, as it
\* was before the pass, exceeds the TTL, leaves every other session in
\* place, and returns the number of sessions it deleted.
C20_CleanupDeletesAged ==
    [][(CleanupPass /\ redis_client /\ ~last'.err)
        => /\ \A s \in AgedSessions : ~store'[s].present
           /\ \A s \in Sids \ AgedSessions : store'[s].present = store[s].present
           /\ last'.ret = RetInt(Cardinality(AgedSessions))]_vars

\* Support for C20: what the pass does instead: it deletes nothing, returns
\* 0, and refreshes every session it reads.
C20_CleanupDeletesNothing ==
    [][CleanupPass
        => /\ last'.ret = RetInt(0)
           /\ \A s \in Sids : store'[s].present = store[s].present
           /\ \A s \in Sids : (store[s].present /\ ~last'.err)
                => /\ store'[s].value.last_activity = now
                   /\ store'[s].expire_at = now + SessionTTL]_vars

\* A classify call has completed.
ClassifyDone == last.op = "classify"

\* C21: classify called with an empty or whitespace-only utterance returns
\* intent unknown, confidence 0.0 and empty entities and calls the fallback
\* collaborator zero times, whatever the context, the threshold and the
\* fallback setting.
C21_BlankIsUnknown ==
    (ClassifyDone /\ last.arg.user_input \in {"", "   "}) =>
        /\ last.ret.intent = "unknown"
        /\ last.ret.v = 0
        /\ last.ret.entities = {}
        /\ last.ret.llm_calls = 0

\* A whitespace-only utterance was classified with a context by a classifier
\* whose fallback is enabled and whose threshold is above 0.0.
C21_Witness ==
    /\ ClassifyDone
    /\ last.arg.user_input = "   "
    /\ last.arg.context.given /\ ~last.arg.context.empty
    /\ classifier.use_llm_fallback
    /\ classifier.confidence_threshold = FullConfidence

\* The utterance of the completed classify call has a character that is not
\* white space, so that the rule stage ran on it.
SpokenInput == ClassifyDone /\ last.arg.user_input \notin {"", "   "}

\* The rule stage's result for the completed classify call.
RuleResult == RuleBasedClassify(Normalize(last.arg.user_input), last.arg.context)

\* C22: for a non-empty utterance classify calls the fallback collaborator
\* exactly once if the boosted rule confidence is strictly below the
\* threshold and the fallback is enabled, and otherwise calls it zero times
\* and returns the rule-based result.
C22_FallbackIffBelowThreshold ==
    SpokenInput =>
        /\ last.ret.llm_calls =
              (IF last.ret.rule_confidence < classifier.confidence_threshold
                  /\ classifier.use_llm_fallback
               THEN 1 ELSE 0)
        /\ last.ret.llm_calls = 0 =>
              /\ last.ret.intent = RuleResult.intent
              /\ last.ret.v = RuleResult.confidence
              /\ last.ret.entities = RuleResult.entities
              /\ last.ret.rule_intent = RuleResult.intent
              /\ last.ret.rule_confidence = RuleResult.confidence

\* A rule matched with a boosted confidence below the threshold and the
\* fallback was called.
C22_Witness ==
    /\ SpokenInput
    /\ last.ret.rule_confidence > 0
    /\ last.ret.rule_confidence < classifier.confidence_threshold
    /\ last.arg.context.given
    /\ last.ret.llm_calls = 1

\* The fallback was called in the completed classify call.
FallbackCalled == SpokenInput /\ last.ret.llm_calls = 1

\* What the fallback classifier made of the collaborator's answer.
FallbackResult == LlmClassify(last.arg.answer)

\* classify returned the triple r.
Returned(r) ==
    /\ last.ret.intent = r.intent
    /\ last.ret.v = r.confidence
    /\ last.ret.entities = r.entities

\* C23: when the fallback is called, classify returns the fallback's intent,
\* confidence and entities if the fallback's confidence is strictly greater
\* than the boosted rule confidence, and the rule-based result unchanged if it
\* is equal or lower; so a fallback of unknown/0.3 never replaces a rule
\* match whose confidence is at least 0.3.
C23_FallbackWinsOnlyIfHigher ==
    FallbackCalled =>
        /\ IF FallbackResult.confidence > RuleResult.confidence
           THEN Returned(FallbackResult)
           ELSE Returned(RuleResult)
        /\ (/\ FallbackResult.intent = "unknown"
            /\ FallbackResult.confidence = FailSoftConfidence
            /\ RuleResult.confidence >= FailSoftConfidence) => Returned(RuleResult)

\* The fallback answered another intent with exactly the confidence of the
\* rule match.
C23_Witness ==
    /\ FallbackCalled
    /\ RuleResult.confidence > 0
    /\ FallbackResult.confidence = RuleResult.confidence
    /\ FallbackResult.intent # RuleResult.intent

\* The collaborator's call failed, or its answer is no JSON object, or the
\* object names an intent that is no value of Intent.
BadAnswer(answer) ==
    \/ answer.kind \in {"raise", "invalid", "array"}
    \/ answer.kind = "object" /\ answer.fence = "unclosed"
    \/ answer.kind = "object" /\ answer.intent \notin IntentValues \cup {Missing}

\* C24: whenever the collaborator's call fails, its answer cannot be parsed,
\* or its answer names an intent outside the Intent set, the fallback
\* classifier yields intent unknown with confidence exactly 0.3 and empty
\* entities.
C24_BadAnswerFailsSoft ==
    (FallbackCalled /\ BadAnswer(last.arg.answer)) =>
        /\ FallbackResult.intent = "unknown"
        /\ FallbackResult.confidence = FailSoftConfidence
        /\ FallbackResult.entities = {}

\* C25: every result classify returns has a confidence in [0, 1], whatever the
\* utterance, the context and the collaborator's answer, an answer with a
\* confidence outside [0, 1] included.
C25_ConfidenceInUnitInterval ==
    ClassifyDone => (0 <= last.ret.v /\ last.ret.v <= FullConfidence)

\* A call of _apply_context_boost has completed.
BoostDone == last.op = "_apply_context_boost"

\* The state the context of the completed call puts the session in.
StateOf(context) ==
    IF ~context.given \/ context.empty \/ context.current_state = Missing
    THEN "IDLE" ELSE context.current_state

\* The boost the rule of C26 gives the intent in the context.
BoostFor(intent, context) ==
    CASE intent \in {"nav_next", "nav_prev", "nav_go_to", "nav_repeat", "nav_start"}
            /\ StateOf(context) \in ActiveReading -> 100
      [] intent = "start_recipe" /\ StateOf(context) = "RECIPE_SELECTED" -> 150
      [] intent = "resume"
            /\ (StateOf(context) = "PAUSED" \/ context.paused \in {"True", "'true'"}) -> 150
      [] intent = "question" /\ StateOf(context) \in ActiveReading -> 50
      [] OTHER -> 0

\* C26: context boosting of a rule match returns min(1.0, base + b), where b
\* is 0.10 for a navigation intent (next, previous, goto, repeat, restart) in
\* an active-reading state, 0.15 for start_recipe in RECIPE_SELECTED, 0.15 for
\* resume while paused, 0.05 for question in an active-reading state and 0
\* otherwise; the result is never below base and never above 1.0.
C26_BoostTable ==
    BoostDone =>
        /\ last.ret.v = Min(FullConfidence,
                            FloatAdd(last.arg.base_confidence,
                                     BoostFor(last.arg.intent, last.arg.context)))
        /\ last.ret.v >= last.arg.base_confidence
        /\ last.ret.v <= FullConfidence

\* The rules, by their position in the order of the rule stage's loops, that
\* match the utterance of the completed classify call.
Matches ==
    {j \in 1..Len(AllRules) :
        ReSearch(Normalize(last.arg.user_input), AllRules[j].intent, AllRules[j].rule)}

\* The base confidence of each rule, and its confidence boosted by the
\* context of the completed classify call.
BaseOf == [j \in 1..Len(AllRules) |-> AllRules[j].confidence]
BoostedOf ==
    [j \in 1..Len(AllRules) |->
        ApplyContextBoost(AllRules[j].intent, AllRules[j].confidence, last.arg.context)]

\* The first of the matches with the highest score.
FirstHighest(score) ==
    CHOOSE j \in Matches :
        \A k \in Matches : score[k] < score[j] \/ (score[k] = score[j] /\ j <= k)

\* The rule stage of the completed classify call found no match, or it
\* selected rule j and returned its confidence boosted by the context.
RuleStageSelected(j) ==
    IF Matches = {}
    THEN last.ret.rule_intent = "unknown" /\ last.ret.rule_confidence = 0
    ELSE /\ last.ret.rule_intent = AllRules[j].intent
         /\ last.ret.rule_confidence = BoostedOf[j]

\* C27 as stated: the rule stage selects the match with the highest base
\* confidence across all rules of all intents, the first one on ties, and
\* boosts that match; a context changes the confidence, never the intent
\* selected.
C27_SelectsByBaseConfidence ==
    SpokenInput => RuleStageSelected(FirstHighest(BaseOf))

\* C27, amended: the rule stage boosts every match by the context and selects
\* the match with the highest boosted confidence across all rules of all
\* intents, the first one on ties.
C27_SelectsByBoostedConfidence ==
    SpokenInput => RuleStageSelected(FirstHighest(BoostedOf))

\* The context made the rule stage select another intent than the one with
\* the highest base confidence.
C27_Witness ==
    /\ SpokenInput
    /\ Matches # {}
    /\ last.arg.context.given
    /\ last.ret.rule_intent = AllRules[FirstHighest(BoostedOf)].intent
    /\ last.ret.rule_intent # AllRules[FirstHighest(BaseOf)].intent

\* C30: for the utterance "what's the third step?" with context state
\* RECIPE_ACTIVE the resolved intent is question, and the confidence returned
\* is higher than the one returned for the same utterance, by the same
\* classifier with the same answer of the collaborator, with no context.
C30_ThirdStepIsBoostedQuestion ==
    (/\ ClassifyDone
     /\ last.arg.user_input = "what's the third step?"
     /\ last.arg.context = Context("RECIPE_ACTIVE", Missing)) =>
        /\ last.ret.intent = "question"
        /\ last.ret.v > ClassifyResult(classifier, last.arg.user_input, NoContext,
                                       last.arg.answer).v

\* This step is a call of add_conversation_turn on s1, whose record was
\* stored.
TurnAdded == last'.op = "add_conversation_turn" /\ store["s1"].present

\* C28: add_conversation_turn changes the session's last intent only when the
\* role is user and the intent is non-empty, and then the last intent becomes
\* that intent; an assistant turn and a user turn without an intent leave the
\* last intent unchanged, and the turn is appended all the same.
C28_LastIntentFollowsUserTurns ==
    [][TurnAdded =>
        LET old == store["s1"].value
            new == store'["s1"].value
            turn == new.conversation_history[Len(new.conversation_history)]
        IN /\ store'["s1"].present
           /\ IF last'.ret = RetTrue
              THEN /\ new.conversation_history =
                        Append(old.conversation_history, turn)
                   /\ turn.content = last'.arg
                   /\ new.last_intent =
                        (IF turn.role = "user" /\ turn.intent # NoIntent
                         THEN turn.intent ELSE old.last_intent)
              ELSE /\ new.conversation_history = old.conversation_history
                   /\ new.last_intent = old.last_intent]_vars

\* An assistant turn with an intent was appended after a user turn with
\* another intent, which is still the last intent.
C28_Witness ==
    /\ last.op = "add_conversation_turn"
    /\ last.ret = RetTrue
    /\ store["s1"].present
    /\ LET h == store["s1"].value.conversation_history IN
       /\ Len(h) >= 2
       /\ h[Len(h)].role = "assistant"
       /\ h[Len(h)].intent = "question"
       /\ h[Len(h) - 1].role = "user"
       /\ store["s1"].value.last_intent = "next_step"

\* The positions of the payload sequence `keys` whose key is not in `spoken`.
Unspoken(keys, spoken) ==
    {p \in 1..Len(keys) : \A q \in 1..Len(spoken) : spoken[q] # keys[p]}

\* v is the least member of the set of positions S.
Least(v, S) == v \in S /\ \A p \in S : v <= p

\* C29: get_next_unspoken_ingredient, having read the session's record,
\* returns the lowest-position ingredient of the payload whose index is not in
\* ingredients_spoken, and get_next_unspoken_step the first step in payload
\* order whose step number is not in steps_spoken; each returns None exactly
\* when every entry of the payload sequence is marked spoken.
C29_NextUnspokenIsFirst ==
    [][/\ ReadBy("get_next_unspoken_ingredient", "s1") =>
            LET data == store["s1"].value
                ingredients == data.response_structure.ingredients
                left == Unspoken([p \in 1..Len(ingredients) |-> p - 1],
                                 data.ingredients_spoken)
            IN IF left = {} THEN last'.ret = RetNone
               ELSE /\ last'.ret.kind = "entry"
                    /\ Least(last'.ret.v + 1, left)
       /\ ReadBy("get_next_unspoken_step", "s1") =>
            LET data == store["s1"].value
                left == Unspoken(data.response_structure.steps, data.steps_spoken)
            IN IF left = {} THEN last'.ret = RetNone
               ELSE /\ last'.ret.kind = "entry"
                    /\ Least(last'.ret.v, left)]_vars

\* get_next_unspoken_step returned the second step of the payload, the first
\* one being spoken.
C29_Witness ==
    /\ last.op = "get_next_unspoken_step"
    /\ last.ret = RetEntry(2)
    /\ store["s1"].present
    /\ store["s1"].value.response_structure = TwoRecipe
    /\ store["s1"].value.steps_spoken = <<1>>

\* The k most recent entries of a list, in their order.
MostRecent(list, k) ==
    IF k >= Len(list) THEN list ELSE SubSeq(list, Len(list) - k + 1, Len(list))

\* C31: get_conversation_history(session_id, limit=k), having read the
\* session's record, returns the k most recent turns in their stored order
\* (at most k turns), for every integer k >= 0, k = 0 included.
C31_HistoryLimitedToMostRecent ==
    [][\A s \in Sids :
        (ReadBy("get_conversation_history", s) /\ last'.arg >= 0) =>
            last'.ret = RetTurns(MostRecent(store[s].value.conversation_history,
                                            last'.arg))]_vars

\* C32: in every reachable state of a stored session driven by the session
\* operations, the paused flag is true if and only if the current state is
\* PAUSED.
C32_PausedIffStatePaused ==
    \A s \in Sids :
        store[s].present =>
            (store[s].value.paused <=> store[s].value.current_state = "PAUSED")

\* A paused session on which another operation has since written.
C32_Witness ==
    /\ last.op = "mark_step_spoken"
    /\ last.ret = RetTrue
    /\ store[last.sid].present
    /\ store[last.sid].value.paused
    /\ store[last.sid].value.current_state = "PAUSED"
    /\ store[last.sid].value.steps_spoken # <<>>

\* The states a session record is stored in.
StoredStates == {"RECIPE_SELECTED", "RECIPE_ACTIVE", "PAUSED"}

\* C33: the current state of a stored session is always one of
\* RECIPE_SELECTED, RECIPE_ACTIVE and PAUSED; apart from create_session only
\* set_pause changes it, so navigation, marking, timer, history and playback
\* operations leave the state and the paused flag as they were; and a session
\* that has left RECIPE_SELECTED returns to it only through create_session.
C33_OnlySetPauseChangesState ==
    /\ [](store["s1"].present => store["s1"].value.current_state \in StoredStates)
    /\ [][(store["s1"].present /\ store'["s1"].present
             /\ last'.op # "create_session") =>
            LET old == store["s1"].value
                new == store'["s1"].value
            IN /\ last'.op # "set_pause" =>
                    /\ new.current_state = old.current_state
                    /\ new.paused = old.paused
               /\ old.current_state # "RECIPE_SELECTED" =>
                    new.current_state # "RECIPE_SELECTED"]_vars

\* navigate_next moved a paused session on: it is still paused.
C33_Witness ==
    /\ last.op = "navigate_next"
    /\ last.ret = RetInt(1)
    /\ store["s1"].present
    /\ store["s1"].value.step_index = 1
    /\ store["s1"].value.current_state = "PAUSED"
    /\ store["s1"].value.paused

\* The values of a list.
Values(list) == {list[i] : i \in 1..Len(list)}

\* C34: with whole calls following one another, between a create_session and
\* the next create, delete or expiry of the session each spoken-tracking
\* collection only grows: a value marked spoken is still in its collection
\* after every later operation.
C34_SpokenOnlyGrows ==
    [][\A s \in Sids :
        (store[s].present /\ store'[s].present /\ last'.op # "create_session") =>
            LET old == store[s].value
                new == store'[s].value
            IN /\ Values(old.ingredients_spoken) \subseteq Values(new.ingredients_spoken)
               /\ Values(old.steps_spoken) \subseteq Values(new.steps_spoken)
               /\ Values(old.sections_spoken) \subseteq Values(new.sections_spoken)]_vars

\* set_pause wrote a session whose three collections hold a value each.
C34_Witness ==
    /\ last.op = "set_pause"
    /\ last.ret = RetTrue
    /\ store[last.sid].present
    /\ store[last.sid].value.paused
    /\ store[last.sid].value.ingredients_spoken = <<0>>
    /\ store[last.sid].value.steps_spoken = <<1>>
    /\ store[last.sid].value.sections_spoken = <<"greeting">>

\* The number of entries of the payload sequence the loop of c runs over.
PayloadEntries(c) ==
    LET r == store[proc[c].sid].value.response_structure IN
    IF proc[c].op = "narrate_steps" THEN Len(r.steps) ELSE Len(r.ingredients)

\* C35: a narration loop that calls get_next_unspoken_step and then
\* mark_step_spoken with the returned step number (or
\* get_next_unspoken_ingredient and mark_ingredient_spoken with the returned
\* index) on an existing session receives None after at most as many
\* iterations as the payload has entries, whatever the payload: the loop never
\* receives more entries than the payload has, and every entry it receives is
\* one it has not marked before.
C35_NarrationLoopEnds ==
    \A c \in Clients :
        proc[c].pc \in {"ask", "mark", "done"} =>
            /\ store[proc[c].sid].present
            /\ proc[c].arg <= PayloadEntries(c)
            /\ proc[c].pc = "done" => proc[c].ret = RetNone
            /\ LET spoken == IF proc[c].op = "narrate_steps"
                             THEN store[proc[c].sid].value.steps_spoken
                             ELSE store[proc[c].sid].value.ingredients_spoken
               IN Len(spoken) = proc[c].arg - (IF proc[c].pc = "mark" THEN 1 ELSE 0)

\* The loop over steps <<1, 1, 0>> ended after two iterations.
C35_Witness ==
    /\ proc["c1"].pc = "done"
    /\ proc["c1"].op = "narrate_steps"
    /\ proc["c1"].arg = 2
    /\ store["s1"].present
    /\ store["s1"].value.response_structure = OddRecipe
    /\ store["s1"].value.steps_spoken = <<1, 0>>

\* C36: check_timer never deactivates a timer whose expiry instant is still
\* in the future, a set_timer interleaving between check_timer's read of an
\* expired timer and its clear_timer write included.
C36_CheckTimerKeepsRunningTimer ==
    [][\A c \in Clients :
        (/\ proc[c].op = "check_timer"
         /\ proc'[c] # proc[c]
         /\ store[proc[c].sid].present
         /\ store[proc[c].sid].value.timer_active
         /\ store[proc[c].sid].value.timer_end_time > now) =>
            /\ store'[proc[c].sid].present
            /\ store'[proc[c].sid].value.timer_active]_vars

\* C37: after delete_session has reported success for a session id, and with
\* no create_session of that id since, the store holds no record for the id,
\* even when a get_session for the id was between its read and its refresh
\* write when the delete happened.
C37_DeletedStaysDeleted ==
    (last.op = "delete_session" /\ last.ret = RetTrue) => ~store[last.sid].present

\* C39: navigate_next and navigate_prev return a new step index only if that
\* index was written to the store: the step they return is the step index
\* the store holds after the call, a call whose write-back fails included.
C39_ReturnedStepIsStored ==
    [][\A s \in Sids :
        (/\ last'.op \in {"navigate_next", "navigate_prev"}
         /\ last'.sid = s
         /\ last'.ret.kind = "int"
         /\ store[s].present) =>
            /\ store'[s].present
            /\ store'[s].value.step_index = last'.ret.v]_vars

\* The completed classify call, had it been made with no context: the same
\* classifier, utterance and answer of the collaborator.
WithoutContext ==
    ClassifyResult(classifier, last.arg.user_input, NoContext, last.arg.answer)

\* The collaborator's answer carries no confidence outside [0, 1].
AnswerInRange ==
    last.arg.answer.confidence.t = "number" =>
        (0 <= last.arg.answer.confidence.v
         /\ last.arg.answer.confidence.v <= FullConfidence)

\* C38 as stated: for a fixed utterance, threshold and answer of the
\* collaborator (here one with a confidence in [0, 1]), the confidence
\* classify returns with a session context is never lower than the one it
\* returns with no context.
C38_ContextNeverLowersConfidence ==
    (ClassifyDone /\ AnswerInRange) => last.ret.v >= WithoutContext.v

\* C38, amended: the rule confidence with a context is never lower than with
\* no context, and neither is the confidence classify returns, unless the
\* context lifts the rule confidence to the threshold, so that the fallback
\* is consulted without the context and not with it.
C38_BoostNeverLowersRuleConfidence ==
    ClassifyDone =>
        /\ last.ret.rule_confidence >= WithoutContext.rule_confidence
        /\ last.ret.llm_calls <= WithoutContext.llm_calls
        /\ last.ret.llm_calls = WithoutContext.llm_calls =>
              last.ret.v >= WithoutContext.v

\* The context raised the rule confidence and the fallback was consulted all
\* the same.
C38_Witness ==
    /\ ClassifyDone
    /\ last.arg.context.given
    /\ last.ret.rule_confidence > WithoutContext.rule_confidence
    /\ last.ret.llm_calls = 1
    /\ WithoutContext.llm_calls = 1
====
